---------------------------- MODULE Spec2Model ----------------------------
(***************************************************************************)
(* Model of the cs4all backend core:                                       *)
(*   - the streaming reference sanitizer (app/services/hint_process.py),   *)
(*   - the LLM grading client's retry loop (app/services/llm.py),          *)
(*   - the grading worker, its queue and the admin review endpoint         *)
(*     (app/workers/grading_worker.py, app/api/v1/grade.py, admin.py).     *)
(* Text is a sequence of one-character strings.                            *)
(***************************************************************************)
EXTENDS Integers, Sequences, FiniteSets, TLC

VARIABLES
    \* ---- HintPostProcessor (one instance) ----
    valid_ids,      \* self._valid_ids
    buffer,         \* self._buffer
    san_pc,         \* "streaming" | "flushed" | "off"
    san_in,         \* concatenation of all chunks fed so far
    san_out,        \* concatenation of everything feed/flush returned so far
    san_n,          \* number of feed calls made
    san_ret         \* what the latest feed/flush call returned

VARIABLES
    \* ---- postprocess_hint called on a complete text ----
    post_pc,        \* "call" | "done" | "again" | "off"
    post_text,      \* the argument text
    post_ids,       \* the argument valid_ids
    post_out,       \* what postprocess_hint(text, valid_ids) returned
    post_out2       \* what postprocess_hint returned for that output again

VARIABLES
    \* ---- datastore, queue, worker processes, admin endpoint ----
    db,             \* exercise_submissions: submission id -> row, or NoRow
    queue,          \* the Redis list cs4all:grading_queue, left end first
    wk,             \* per worker process: position and locals of run_worker
    admin,          \* the review_submission request in flight
    enq_count,      \* number of webhook deliveries so far
    enq_log,        \* the ids pushed on the queue, in the order of the pushes
    deq_log         \* the ids popped from the queue, in the order of the pops

VARIABLES
    \* ---- ask_hint.sse_generator over stream_hint (one hint request) ----
    sse_pc,         \* "streaming" | "ended" | "off"
    sse_events,     \* the SSE events yielded so far
    sse_exc,        \* the exception raised inside stream_hint, "" while none
    sse_raised      \* TRUE when sse_generator itself ended by raising

VARIABLES
    \* ---- HintPostProcessor instances of concurrent hint requests ----
    procs           \* per instance: its fields and the calls made on it

sanVars == <<valid_ids, buffer, san_pc, san_in, san_out, san_n, san_ret>>

postVars == <<post_pc, post_text, post_ids, post_out, post_out2>>

sysVars == <<db, queue, wk, admin, enq_count, enq_log, deq_log>>

hintVars == <<sse_pc, sse_events, sse_exc, sse_raised>>

twoVars == <<procs>>

vars == <<valid_ids, buffer, san_pc, san_in, san_out, san_n, san_ret,
          post_pc, post_text, post_ids, post_out, post_out2,
          db, queue, wk, admin, enq_count, enq_log, deq_log,
          sse_pc, sse_events, sse_exc, sse_raised, procs>>

----------------------------------------------------------------------------
(* Characters *)

LowerSeq ==
    <<"a","b","c","d","e","f","g","h","i","j","k","l","m",
      "n","o","p","q","r","s","t","u","v","w","x","y","z">>

UpperSeq ==
    <<"A","B","C","D","E","F","G","H","I","J","K","L","M",
      "N","O","P","Q","R","S","T","U","V","W","X","Y","Z">>

DigitChars == {"0","1","2","3","4","5","6","7","8","9"}

\* \w of the patterns (re, str patterns: letters, digits, underscore)
WordChars ==
    {LowerSeq[i] : i \in 1..26} \cup {UpperSeq[i] : i \in 1..26}
        \cup DigitChars \cup {"_"}

IsWord(c) == c \in WordChars

\* [\w-]
IsIdChar(c) == c \in WordChars \/ c = "-"

\* re.IGNORECASE folding of one character
ToLower(c) ==
    IF \E i \in 1..26 : UpperSeq[i] = c
    THEN LowerSeq[CHOOSE i \in 1..26 : UpperSeq[i] = c]
    ELSE c

MaxOf(S) == CHOOSE k \in S : \A j \in S : j <= k

MinOf(S) == CHOOSE k \in S : \A j \in S : k <= j

\* the literal "ref" at position i, case-insensitively
LitRef(t, i) ==
    /\ i >= 1
    /\ i + 2 <= Len(t)
    /\ ToLower(t[i]) = "r"
    /\ ToLower(t[i + 1]) = "e"
    /\ ToLower(t[i + 2]) = "f"

\* ref[-:] at position i
RefSep(t, i) ==
    /\ LitRef(t, i)
    /\ i + 3 <= Len(t)
    /\ t[i + 3] \in {"-", ":"}

RECURSIVE WordRunEnd(_, _)
\* first position >= i that is not matched by a greedy \w*
WordRunEnd(t, i) ==
    IF i <= Len(t) /\ IsWord(t[i]) THEN WordRunEnd(t, i + 1) ELSE i

RECURSIVE IdRunEnd(_, _)
\* first position >= i that is not matched by a greedy [\w-]*
IdRunEnd(t, i) ==
    IF i <= Len(t) /\ IsIdChar(t[i]) THEN IdRunEnd(t, i + 1) ELSE i

----------------------------------------------------------------------------
(* _RAW_REF_PATTERN, _normalize_ref_id, _replace_refs, postprocess_hint *)

\* Length of  \[?ref[-:]  at position c when it is followed by at least one
\* ID character ([\w-]+), 0 when the core does not match at c.
CoreLen(t, c) ==
    IF c <= Len(t) /\ t[c] = "["
    THEN IF RefSep(t, c + 1) /\ c + 5 <= Len(t) /\ IsIdChar(t[c + 5])
         THEN 5 ELSE 0
    ELSE IF RefSep(t, c) /\ c + 4 <= Len(t) /\ IsIdChar(t[c + 4])
         THEN 4 ELSE 0

NoMatch == [stop |-> 0, prefix |-> <<>>, raw_id |-> <<>>]

\* The match of _RAW_REF_PATTERN that starts exactly at position i
\* (stop = 0: none).  (\w*)? is greedy and backtracks from the longest word
\* run down to the empty one; the ID body is the whole [\w-] run; \]? takes a
\* closing bracket when there is one.
RawMatchAt(t, i) ==
    LET e  == WordRunEnd(t, i)
        ks == {k \in 0..(e - i) : CoreLen(t, i + k) > 0}
    IN  IF ks = {} THEN NoMatch
        ELSE LET c  == i + MaxOf(ks)
                 b  == c + CoreLen(t, c)
                 be == IdRunEnd(t, b)
             IN  [stop   |-> IF be <= Len(t) /\ t[be] = "]" THEN be + 1 ELSE be,
                  prefix |-> SubSeq(t, i, c - 1),
                  raw_id |-> SubSeq(t, b, be - 1)]

RefDash == <<"r", "e", "f", "-">>

OpenTag == <<"[", "r", "e", "f", ":">>

\* NormalizeRefId without the lookup of the prefixed id
NormalizeRefIdDirectOnly(raw_id, ids) ==
    IF raw_id \in ids THEN raw_id ELSE <<>>

\* None is modelled as the empty text: the caller tests truthiness only
NormalizeRefId(raw_id, ids) ==
    IF raw_id \in ids THEN raw_id
    ELSE IF (RefDash \o raw_id) \in ids THEN RefDash \o raw_id
    ELSE <<>>

\* Replacer that drops the fused word together with an invented tag
ReplacerDropsFusedWord(m, ids) ==
    LET valid_id == NormalizeRefId(m.raw_id, ids)
    IN  IF valid_id # <<>>
        THEN m.prefix \o OpenTag \o valid_id \o <<"]">>
        ELSE <<>>

Replacer(m, ids) ==
    LET valid_id == NormalizeRefId(m.raw_id, ids)
    IN  IF valid_id # <<>>
        THEN m.prefix \o OpenTag \o valid_id \o <<"]">>
        ELSE m.prefix

RECURSIVE SubFrom(_, _, _)
\* _RAW_REF_PATTERN.sub(replacer, text), scanning from position i
SubFrom(t, i, ids) ==
    IF i > Len(t) THEN <<>>
    ELSE LET m == RawMatchAt(t, i)
         IN  IF m.stop = 0
             THEN <<t[i]>> \o SubFrom(t, i + 1, ids)
             ELSE Replacer(m, ids) \o SubFrom(t, m.stop, ids)

ReplaceRefs(text, ids) == SubFrom(text, 1, ids)

PostprocessHint(text, ids) == ReplaceRefs(text, ids)

RECURSIVE MarkerSpans(_, _)
\* The candidate markers of t from position i on, as _RAW_REF_PATTERN.sub
\* finds them: start is the first character after the fused word, stop the
\* position after the match.
MarkerSpans(t, i) ==
    IF i > Len(t) THEN {}
    ELSE LET m == RawMatchAt(t, i)
         IN  IF m.stop = 0 THEN MarkerSpans(t, i + 1)
             ELSE {[start |-> i + Len(m.prefix), stop |-> m.stop]}
                      \cup MarkerSpans(t, m.stop)

\* _CLEAN_REF_PATTERN: the ids of the well-formed tags [ref:ID] in t
CleanMarkerIds(t) ==
    { SubSeq(t, i + 5, IdRunEnd(t, i + 5) - 1) :
        i \in { j \in 1..Len(t) :
                  /\ j + 4 <= Len(t)
                  /\ SubSeq(t, j, j + 4) = OpenTag
                  /\ IdRunEnd(t, j + 5) > j + 5
                  /\ IdRunEnd(t, j + 5) <= Len(t)
                  /\ t[IdRunEnd(t, j + 5)] = "]" } }

----------------------------------------------------------------------------
(* _INCOMPLETE_REF_SUFFIX *)

\* positions at which $ matches: the end of the text, and just before a
\* newline that ends the text
DollarAt(t, p) ==
    \/ p = Len(t) + 1
    \/ p = Len(t) /\ Len(t) >= 1 /\ t[p] = "\n"

\* \w*\[ref:[\w-]*  or  \w*\[ref-[\w-]*  from position i, up to $
OpenTagSuffixAt(t, i) ==
    LET e == WordRunEnd(t, i)
    IN  /\ e <= Len(t)
        /\ t[e] = "["
        /\ RefSep(t, e + 1)
        /\ DollarAt(t, IdRunEnd(t, e + 5))

\* BarePrefixSuffixAt without the alternative \[re$
BarePrefixSuffixAtNoRe(t, i) ==
    /\ i <= Len(t)
    /\ t[i] = "["
    /\ \/ LitRef(t, i + 1) /\ DollarAt(t, i + 4)
       \/ /\ i + 1 <= Len(t)
          /\ ToLower(t[i + 1]) = "r"
          /\ DollarAt(t, i + 2)
       \/ DollarAt(t, i + 1)

\* \[ref$ | \[re$ | \[r$ | \[$   at position i
BarePrefixSuffixAt(t, i) ==
    /\ i <= Len(t)
    /\ t[i] = "["
    /\ \/ LitRef(t, i + 1) /\ DollarAt(t, i + 4)
       \/ /\ i + 2 <= Len(t)
          /\ ToLower(t[i + 1]) = "r"
          /\ ToLower(t[i + 2]) = "e"
          /\ DollarAt(t, i + 3)
       \/ /\ i + 1 <= Len(t)
          /\ ToLower(t[i + 1]) = "r"
          /\ DollarAt(t, i + 2)
       \/ DollarAt(t, i + 1)

\* _INCOMPLETE_REF_SUFFIX.search(text).start(), 0 when there is no match
IncompleteStart(t) ==
    LET S == {i \in 1..Len(t) : OpenTagSuffixAt(t, i) \/ BarePrefixSuffixAt(t, i)}
    IN  IF S = {} THEN 0 ELSE MinOf(S)

----------------------------------------------------------------------------
(* HintPostProcessor.feed / flush *)

\* FeedSafeText that releases the whole text, the held-back suffix included
FeedSafeTextWholeBuffer(buf, chunk) ==
    buf \o chunk

\* what feed(chunk) returns when the buffer holds buf
FeedSafeText(buf, chunk) ==
    LET b == buf \o chunk
        s == IncompleteStart(b)
    IN  IF s > 0 THEN SubSeq(b, 1, s - 1) ELSE b

\* FeedBuffer with a cap: a buffer that would grow past 8 characters is
\* given up
FeedBufferCapped(buf, chunk) ==
    LET b == buf \o chunk
        s == IncompleteStart(b)
    IN  IF s > 0 /\ Len(b) - s + 1 <= 8 THEN SubSeq(b, s, Len(b)) ELSE <<>>

FeedBuffer(buf, chunk) ==
    LET b == buf \o chunk
        s == IncompleteStart(b)
    IN  IF s > 0 THEN SubSeq(b, s, Len(b)) ELSE <<>>

FeedReturn(buf, chunk, ids) ==
    LET safe_text == FeedSafeText(buf, chunk)
    IN  IF safe_text # <<>> THEN ReplaceRefs(safe_text, ids) ELSE <<>>

\* FlushReturn that still holds back an incomplete tag, as feed does
FlushReturnSafeOnly(buf, ids) ==
    FeedReturn(buf, <<>>, ids)

FlushReturn(buf, ids) ==
    IF buf # <<>> THEN ReplaceRefs(buf, ids) ELSE <<>>

----------------------------------------------------------------------------
(* The sanitizer as a state machine: one HintPostProcessor fed by a stream *)

\* most chunks one stream delivers
MaxChunks == 4

\* the chunks (LLM tokens) a stream may deliver
Tokens ==
    { <<"[", "r", "e", "f", ":">>,
      <<"[">>,
      <<"r", "e", "f", "-">>,
      <<"r">>,
      <<"e", "f", "-">>,
      <<"a">>,
      <<"]">>,
      <<" ">>,
      <<"\n">> }

\* the anchor-id sets a request may carry
ValidIdSets ==
    { {}, { <<"a">> }, { <<"r", "e", "f", "-", "a">> } }

HintOff ==
    /\ sse_pc = "off"
    /\ sse_events = <<>>
    /\ sse_exc = ""
    /\ sse_raised = FALSE

TwoOff ==
    procs = <<>>

PostOff ==
    /\ post_pc = "off"
    /\ post_text = <<>>
    /\ post_ids = {}
    /\ post_out = <<>>
    /\ post_out2 = <<>>

SysOff ==
    /\ db = <<>>
    /\ queue = <<>>
    /\ wk = <<>>
    /\ admin = <<>>
    /\ enq_count = 0
    /\ enq_log = <<>>
    /\ deq_log = <<>>

\* HintPostProcessor.__init__
SanInit ==
    /\ valid_ids \in ValidIdSets
    /\ buffer = <<>>
    /\ san_pc = "streaming"
    /\ san_in = <<>>
    /\ san_out = <<>>
    /\ san_n = 0
    /\ san_ret = <<>>
    /\ PostOff
    /\ HintOff
    /\ TwoOff
    /\ SysOff

\* HintPostProcessor.feed(chunk)
Feed(chunk) ==
    /\ san_pc = "streaming"
    /\ san_n < MaxChunks
    /\ buffer' = FeedBuffer(buffer, chunk)
    /\ san_ret' = FeedReturn(buffer, chunk, valid_ids)
    /\ san_out' = san_out \o san_ret'
    /\ san_in' = san_in \o chunk
    /\ san_n' = san_n + 1
    /\ UNCHANGED <<valid_ids, san_pc>>
    /\ UNCHANGED postVars
    /\ UNCHANGED sysVars
    /\ UNCHANGED hintVars
    /\ UNCHANGED twoVars

\* HintPostProcessor.flush(), at the end of the stream; a caller may call it
\* again on the flushed processor
Flush ==
    /\ san_pc \in {"streaming", "flushed"}
    /\ buffer' = <<>>
    /\ san_ret' = FlushReturn(buffer, valid_ids)
    /\ san_out' = san_out \o san_ret'
    /\ san_pc' = "flushed"
    /\ UNCHANGED <<valid_ids, san_in, san_n>>
    /\ UNCHANGED postVars
    /\ UNCHANGED sysVars
    /\ UNCHANGED hintVars
    /\ UNCHANGED twoVars

SanNext ==
    \/ \E chunk \in Tokens : Feed(chunk)
    \/ Flush

SpecSan == SanInit /\ [][SanNext]_vars

----------------------------------------------------------------------------
(* One stream made of the chunks of a fixed LLM response (hint streaming) *)

\* the chunks of the response  The value is [ref:ref-x9] done
ScenarioChunks ==
    { <<"T", "h", "e", " ", "v", "a", "l">>,
      <<"u", "e", " ", "i", "s", " ", "[", "r", "e">>,
      <<"f", ":", "r", "e", "f", "-", "x", "9", "]">>,
      <<" ", "d", "o", "n", "e">> }

\* the anchor-id sets of that request
ScenarioIdSets ==
    { {}, { <<"r", "e", "f", "-", "x", "9">> } }

\* HintPostProcessor.__init__
ScenarioInit ==
    /\ valid_ids \in ScenarioIdSets
    /\ buffer = <<>>
    /\ san_pc = "streaming"
    /\ san_in = <<>>
    /\ san_out = <<>>
    /\ san_n = 0
    /\ san_ret = <<>>
    /\ PostOff
    /\ HintOff
    /\ TwoOff
    /\ SysOff

ScenarioNext ==
    \/ \E chunk \in ScenarioChunks : Feed(chunk)
    \/ Flush

SpecScenario == ScenarioInit /\ [][ScenarioNext]_vars

----------------------------------------------------------------------------
(* ask_hint.sse_generator iterating stream_hint *)

\* the exceptions stream_hint may raise into sse_generator: GradingError
\* (_create_llm without an API key) or any other exception (provider,
\* network, sanitizer)
HintExceptions == {"GradingError", "Exception"}

DataEvent(text) == [kind |-> "data", text |-> text]

\* data: [DONE]
DoneEvent == [kind |-> "done", text |-> <<>>]

\* data: [ERROR] ...
ErrorEvent == [kind |-> "error", text |-> <<>>]

\* SseHandler with only the  except GradingError  clause
SseHandlerGradingErrorOnly(exc) ==
    IF exc = "GradingError"
    THEN [caught |-> TRUE, events |-> <<ErrorEvent>>]
    ELSE [caught |-> FALSE, events |-> <<>>]

\* the except clauses of sse_generator: both yield one [ERROR] event
SseHandler(exc) ==
    IF exc = "GradingError"
    THEN [caught |-> TRUE, events |-> <<ErrorEvent>>]
    ELSE [caught |-> TRUE, events |-> <<ErrorEvent>>]

\* the request starts streaming: sse_generator entered, processor created
HintInit ==
    /\ valid_ids \in ValidIdSets
    /\ buffer = <<>>
    /\ san_pc = "streaming"
    /\ san_in = <<>>
    /\ san_out = <<>>
    /\ san_n = 0
    /\ san_ret = <<>>
    /\ sse_pc = "streaming"
    /\ sse_events = <<>>
    /\ sse_exc = ""
    /\ sse_raised = FALSE
    /\ PostOff
    /\ TwoOff
    /\ SysOff

\* one chunk of llm.astream: processor.feed(token), the output (if any) is
\* yielded by stream_hint and sent by sse_generator as a data event
HintToken(chunk) ==
    /\ sse_pc = "streaming"
    /\ san_n < MaxChunks
    /\ buffer' = FeedBuffer(buffer, chunk)
    /\ san_ret' = FeedReturn(buffer, chunk, valid_ids)
    /\ san_out' = san_out \o san_ret'
    /\ san_in' = san_in \o chunk
    /\ san_n' = san_n + 1
    /\ sse_events' = IF san_ret' # <<>>
                     THEN Append(sse_events, DataEvent(san_ret'))
                     ELSE sse_events
    /\ UNCHANGED <<valid_ids, san_pc, sse_pc, sse_exc, sse_raised>>
    /\ UNCHANGED postVars
    /\ UNCHANGED sysVars
    /\ UNCHANGED twoVars

\* stream_hint raises (creating the client, or while iterating the LLM
\* stream): the except clauses of sse_generator take over
HintRaise(exc) ==
    /\ sse_pc = "streaming"
    /\ LET h == SseHandler(exc)
       IN  /\ sse_events' = sse_events \o h.events
           /\ sse_raised' = ~h.caught
    /\ sse_exc' = exc
    /\ sse_pc' = "ended"
    /\ UNCHANGED sanVars
    /\ UNCHANGED postVars
    /\ UNCHANGED sysVars
    /\ UNCHANGED twoVars

\* HintEnd that yields [DONE] before the remainder of the flush
HintEndDoneFirst ==
    /\ sse_pc = "streaming"
    /\ buffer' = <<>>
    /\ san_ret' = FlushReturn(buffer, valid_ids)
    /\ san_out' = san_out \o san_ret'
    /\ san_pc' = "flushed"
    /\ sse_events' = <<DoneEvent>> \o
                     (IF san_ret' # <<>>
                      THEN Append(sse_events, DataEvent(san_ret'))
                      ELSE sse_events)
    /\ sse_pc' = "ended"
    /\ UNCHANGED <<valid_ids, san_in, san_n, sse_exc, sse_raised>>
    /\ UNCHANGED postVars
    /\ UNCHANGED sysVars
    /\ UNCHANGED twoVars

\* the LLM stream ends: processor.flush(), the remainder (if any) is sent as
\* a data event, then sse_generator yields [DONE]
HintEnd ==
    /\ sse_pc = "streaming"
    /\ buffer' = <<>>
    /\ san_ret' = FlushReturn(buffer, valid_ids)
    /\ san_out' = san_out \o san_ret'
    /\ san_pc' = "flushed"
    /\ sse_events' = (IF san_ret' # <<>>
                      THEN Append(sse_events, DataEvent(san_ret'))
                      ELSE sse_events) \o <<DoneEvent>>
    /\ sse_pc' = "ended"
    /\ UNCHANGED <<valid_ids, san_in, san_n, sse_exc, sse_raised>>
    /\ UNCHANGED postVars
    /\ UNCHANGED sysVars
    /\ UNCHANGED twoVars

HintNext ==
    \/ \E chunk \in Tokens : HintToken(chunk)
    \/ \E exc \in HintExceptions : HintRaise(exc)
    \/ HintEnd

SpecHint == HintInit /\ [][HintNext]_vars

----------------------------------------------------------------------------
(* Two HintPostProcessor instances, one per concurrent hint request *)

Instances == {"p1", "p2"}

\* most calls (feed or flush) made on one instance
MaxCalls == 2

\* the chunks the two streams may deliver
TwoTokens ==
    { <<"[", "r", "e", "f", ":", "a">>,
      <<"]">>,
      <<"x">> }

\* HintPostProcessor.__init__: a set of its own built from the list passed,
\* and an empty buffer; calls and rets record what was called on the
\* instance and what each call returned
NewProcessor(ids) ==
    [valid_ids |-> ids, buffer |-> <<>>, calls |-> <<>>, rets |-> <<>>]

\* AfterFeed with the buffer a class attribute, shared by every instance
AfterFeedSharedBuffer(ps, i, chunk) ==
    [j \in DOMAIN ps |->
        IF j = i
        THEN [ps[i] EXCEPT
                !.buffer = FeedBuffer(ps[i].buffer, chunk),
                !.calls  = Append(@, [op |-> "feed", chunk |-> chunk]),
                !.rets   = Append(@, FeedReturn(ps[i].buffer, chunk,
                                                ps[i].valid_ids))]
        ELSE [ps[j] EXCEPT !.buffer = FeedBuffer(ps[i].buffer, chunk)]]

\* the instances after feed(chunk) was called on instance i: the call reads
\* and writes self._buffer and reads self._valid_ids
AfterFeed(ps, i, chunk) ==
    [ps EXCEPT ![i] =
        [@ EXCEPT
           !.buffer = FeedBuffer(ps[i].buffer, chunk),
           !.calls  = Append(@, [op |-> "feed", chunk |-> chunk]),
           !.rets   = Append(@, FeedReturn(ps[i].buffer, chunk,
                                           ps[i].valid_ids))]]

\* the instances after flush() was called on instance i
AfterFlush(ps, i) ==
    [ps EXCEPT ![i] =
        [@ EXCEPT
           !.buffer = <<>>,
           !.calls  = Append(@, [op |-> "flush", chunk |-> <<>>]),
           !.rets   = Append(@, FlushReturn(ps[i].buffer, ps[i].valid_ids))]]

\* stream_hint, twice: each request builds its own processor
TwoInit ==
    /\ procs \in [Instances -> {NewProcessor(ids) : ids \in ValidIdSets}]
    /\ valid_ids = {}
    /\ buffer = <<>>
    /\ san_pc = "off"
    /\ san_in = <<>>
    /\ san_out = <<>>
    /\ san_n = 0
    /\ san_ret = <<>>
    /\ PostOff
    /\ HintOff
    /\ SysOff

\* processor.feed(token) of the request that owns instance i; feed has no
\* await in it, so the calls of the two requests interleave whole
FeedOn(i, chunk) ==
    /\ Len(procs[i].calls) < MaxCalls
    /\ procs' = AfterFeed(procs, i, chunk)
    /\ UNCHANGED sanVars
    /\ UNCHANGED postVars
    /\ UNCHANGED sysVars
    /\ UNCHANGED hintVars

\* processor.flush() of the request that owns instance i
FlushOn(i) ==
    /\ Len(procs[i].calls) < MaxCalls
    /\ procs' = AfterFlush(procs, i)
    /\ UNCHANGED sanVars
    /\ UNCHANGED postVars
    /\ UNCHANGED sysVars
    /\ UNCHANGED hintVars

TwoNext ==
    \/ \E i \in Instances, chunk \in TwoTokens : FeedOn(i, chunk)
    \/ \E i \in Instances : FlushOn(i)

SpecTwo == TwoInit /\ [][TwoNext]_vars

----------------------------------------------------------------------------
(* postprocess_hint on a complete text *)

\* most pieces one text is made of
MaxPieces == 3

\* pieces of an LLM response: plain words and spaces, markers in the forms
\* the LLM produces, fragments of markers
Pieces ==
    { <<"i", "s">>,
      <<" ">>,
      <<"[", "r", "e", "f", ":", "a", "]">>,
      <<"[", "r", "e", "f", "-", "a", "]">>,
      <<"r", "e", "f", "-", "a", "]">>,
      <<"[", "r", "e", "f", ":", "r", "e", "f", "-", "a", "]">>,
      <<"[", "r", "e", "f", ":">>,
      <<"a", "]">>,
      <<"[", "r", "e", "f", ":", "a", ".", "b", "]">> }

RECURSIVE Flatten(_)
\* "".join(pieces)
Flatten(ps) ==
    IF ps = <<>> THEN <<>> ELSE Head(ps) \o Flatten(Tail(ps))

\* the texts postprocess_hint is called on
Texts ==
    { Flatten(ps) : ps \in UNION { [1..n -> Pieces] : n \in 0..MaxPieces } }
        \cup { <<"T", "h", "e", " ", "a", "r", "e", "a", " ", "i", "s", "[", "r", "e", "f", ":", "e", "q", "-", "1", "]", " ", "s", "q", "u", "a", "r", "e", "d">> }

\* the valid_ids postprocess_hint is called with (anchor ids are whatever
\* strings the request's anchor map carries)
PostIdSets ==
    { {},
      { <<"a">> },
      { <<"r", "e", "f", "-", "a">> },
      { <<"a">>, <<"r", "e", "f", "-", "a">> },
      { <<"a", ".", "b">> },
      { <<"r", "e", "f", "-", "e", "q", "-", "1">> } }

PostInit ==
    /\ post_pc = "call"
    /\ post_text \in Texts
    /\ post_ids \in PostIdSets
    /\ post_out = <<>>
    /\ post_out2 = <<>>
    /\ valid_ids = {}
    /\ buffer = <<>>
    /\ san_pc = "off"
    /\ san_in = <<>>
    /\ san_out = <<>>
    /\ san_n = 0
    /\ san_ret = <<>>
    /\ HintOff
    /\ TwoOff
    /\ SysOff

\* cleaned = postprocess_hint(raw_text, valid_ids)
PostprocessCall ==
    /\ post_pc = "call"
    /\ post_out' = PostprocessHint(post_text, post_ids)
    /\ post_pc' = "done"
    /\ UNCHANGED <<post_text, post_ids, post_out2>>
    /\ UNCHANGED sanVars
    /\ UNCHANGED sysVars
    /\ UNCHANGED hintVars
    /\ UNCHANGED twoVars

\* postprocess_hint(cleaned, valid_ids): the output normalized once more
PostprocessAgain ==
    /\ post_pc = "done"
    /\ post_out2' = PostprocessHint(post_out, post_ids)
    /\ post_pc' = "again"
    /\ UNCHANGED <<post_text, post_ids, post_out>>
    /\ UNCHANGED sanVars
    /\ UNCHANGED sysVars
    /\ UNCHANGED hintVars
    /\ UNCHANGED twoVars

PostNext ==
    \/ PostprocessCall
    \/ PostprocessAgain

SpecPost == PostInit /\ [][PostNext]_vars

----------------------------------------------------------------------------
(* Datastore rows, lesson identifiers, LLM outputs *)

None == <<>>

Some(x) == <<x>>

\* submission ids a webhook delivery may carry; "s2" has no row
SubIds == {"s1", "s2"}

NoRow == [status |-> "absent"]

\* lesson identifiers a submission may carry: page#exercise, page, page#
LessonIds == { <<"p", "#", "1">>, <<"p">>, <<"p", "#">> }

NewRow(lesson) ==
    [status         |-> "submitted",
     lesson_id      |-> lesson,
     llm_score      |-> None,
     llm_feedback   |-> None,
     reviewer_score |-> None,
     reviewed_at    |-> None]

RECURSIVE LastHash(_, _)
\* position of the last '#' at or before i, 0 when there is none
LastHash(t, i) ==
    IF i = 0 THEN 0 ELSE IF t[i] = "#" THEN i ELSE LastHash(t, i - 1)

\* ParseExerciseId that takes a lesson id without '#' as its own exercise id
ParseExerciseIdWholePage(lesson) ==
    LET h == LastHash(lesson, Len(lesson))
    IN  IF h > 0 THEN SubSeq(lesson, h + 1, Len(lesson)) ELSE lesson

\* _parse_lesson_id(lesson_id)[1]; None is modelled as the empty text (the
\* caller tests truthiness only)
ParseExerciseId(lesson) ==
    LET h == LastHash(lesson, Len(lesson))
    IN  IF h > 0 THEN SubSeq(lesson, h + 1, Len(lesson)) ELSE <<>>

\* table.update(fields).eq("id", sid): the row after the update
ApplyUpdate(row, fields) ==
    IF row = NoRow THEN row
    ELSE [f \in DOMAIN row |-> IF f \in DOMAIN fields THEN fields[f] ELSE row[f]]

\* one FeedbackItem as the LLM may produce it
Item(awarded, possible) ==
    [criterion |-> "c1", points_awarded |-> awarded,
     points_possible |-> possible, comment |-> "ok"]

\* FeedbackItem: extra="forbid", points_awarded >= 0, points_possible >= 0
ValidItem(it) ==
    /\ DOMAIN it = {"criterion", "points_awarded", "points_possible", "comment"}
    /\ it.points_awarded \in Nat
    /\ it.points_possible \in Nat

\* GradingResponse: extra="forbid", 0 <= overall_score <= 100, min_length=1
ValidGradingResponse(raw) ==
    /\ DOMAIN raw = {"overall_score", "feedback"}
    /\ raw.overall_score \in 0..100
    /\ Len(raw.feedback) >= 1
    /\ \A i \in 1..Len(raw.feedback) : ValidItem(raw.feedback[i])

\* What one structured_llm.ainvoke(prompt) may do: raise (network, provider),
\* yield an object to be validated against GradingResponse, or yield a value
\* that is not a GradingResponse at all (None).
LlmOutcomes ==
    { [kind |-> "raise", exc |-> "NetworkError"],
      [kind |-> "raise", exc |-> "ProviderError"],
      [kind |-> "none"],
      [kind |-> "object",
       raw |-> [overall_score |-> 85, feedback |-> <<Item(2, 2)>>]],
      [kind |-> "object",
       raw |-> [overall_score |-> 40, feedback |-> <<Item(1, 2)>>]],
      [kind |-> "object",
       raw |-> [overall_score |-> 101, feedback |-> <<Item(2, 2)>>]],
      [kind |-> "object",
       raw |-> [overall_score |-> 85, feedback |-> <<>>]],
      [kind |-> "object",
       raw |-> [overall_score |-> 85, feedback |-> <<Item(2, 2)>>,
                extra |-> "x"]] }

----------------------------------------------------------------------------
(* grade_submission: the retry loop *)

\* default of grade_submission's max_retries (the worker passes none)
DefaultMaxRetries == 1

\* AttemptResult that hands on any object the LLM produced, unvalidated
AttemptResultUnvalidated(o) ==
    IF o.kind = "raise" THEN [t |-> "exc", exc |-> o.exc]
    ELSE IF o.kind = "none" THEN [t |-> "wrongtype"]
    ELSE [t |-> "value", value |-> o.raw]

\* What one pass through the try body of the loop yields: the validated
\* value, an exception raised by ainvoke (a raise, or the structured-output
\* validation rejecting the object), or a value that is not a GradingResponse.
AttemptResult(o) ==
    IF o.kind = "raise" THEN [t |-> "exc", exc |-> o.exc]
    ELSE IF o.kind = "none" THEN [t |-> "wrongtype"]
    ELSE IF ValidGradingResponse(o.raw) THEN [t |-> "value", value |-> o.raw]
    ELSE [t |-> "exc", exc |-> "ValidationError"]

\* The locals of one grade_submission call
NewGrade(max_retries) ==
    [max_retries |-> max_retries,
     attempt     |-> 0,          \* the loop variable, range(max_retries + 1)
     invocations |-> 0,          \* ainvoke calls made
     last_error  |-> "",
     state       |-> "running",  \* running | returned | raised
     result      |-> None,       \* the value returned
     raised      |-> "",         \* the exception class raised
     cause       |-> "",         \* __cause__ of the GradingError raised
     log         |-> <<>>,       \* what each attempt yielded
     last_llm    |-> None]       \* what the latest ainvoke yielded

\* GradeStep with the retry test off by one (attempt <= max_retries)
GradeStepOneTooMany(g, o) ==
    LET r  == AttemptResult(o)
        g1 == [g EXCEPT !.invocations = @ + 1,
                        !.log = Append(@, r),
                        !.last_llm = Some(o)]
    IN  IF r.t = "value"
        THEN [g1 EXCEPT !.state = "returned", !.result = Some(r.value)]
        ELSE IF r.t = "wrongtype"
        THEN [g1 EXCEPT !.state = "raised", !.raised = "GradingError"]
        ELSE IF g.attempt <= g.max_retries
        THEN [g1 EXCEPT !.last_error = r.exc, !.attempt = @ + 1]
        ELSE [g1 EXCEPT !.last_error = r.exc,
                        !.state = "raised",
                        !.raised = "GradingError",
                        !.cause = r.exc]

\* GradeStep that keeps the first error as last_error
GradeStepFirstCause(g, o) ==
    LET r  == AttemptResult(o)
        g1 == [g EXCEPT !.invocations = @ + 1,
                        !.log = Append(@, r),
                        !.last_llm = Some(o)]
        fe == IF g.last_error = "" /\ r.t = "exc" THEN r.exc ELSE g.last_error
    IN  IF r.t = "value"
        THEN [g1 EXCEPT !.state = "returned", !.result = Some(r.value)]
        ELSE IF r.t = "wrongtype"
        THEN [g1 EXCEPT !.state = "raised", !.raised = "GradingError"]
        ELSE IF g.attempt < g.max_retries
        THEN [g1 EXCEPT !.last_error = fe, !.attempt = @ + 1]
        ELSE [g1 EXCEPT !.last_error = fe,
                        !.state = "raised",
                        !.raised = "GradingError",
                        !.cause = fe]

\* One iteration of  for attempt in range(max_retries + 1)  with the LLM
\* yielding o, followed by the code after the loop when the loop is exhausted.
GradeStep(g, o) ==
    LET r  == AttemptResult(o)
        g1 == [g EXCEPT !.invocations = @ + 1,
                        !.log = Append(@, r),
                        !.last_llm = Some(o)]
    IN  IF r.t = "value"
        THEN [g1 EXCEPT !.state = "returned", !.result = Some(r.value)]
        ELSE IF r.t = "wrongtype"
        THEN \* raise GradingError(...) is re-raised by  except GradingError
             [g1 EXCEPT !.state = "raised", !.raised = "GradingError"]
        ELSE IF g.attempt < g.max_retries
        THEN [g1 EXCEPT !.last_error = r.exc, !.attempt = @ + 1]
        ELSE [g1 EXCEPT !.last_error = r.exc,
                        !.state = "raised",
                        !.raised = "GradingError",
                        !.cause = r.exc]

\* compile_grading_prompt, _create_llm and with_structured_output, before the
\* loop: a template error propagates as it is, a missing API key is a
\* GradingError.
GradeSetup(g, r) ==
    IF r = "ok" THEN g
    ELSE [g EXCEPT !.state = "raised", !.raised = r]

SetupOutcomes == {"ok", "GradingError", "Exception"}

----------------------------------------------------------------------------
(* process_submission and run_worker *)

Workers == {"w1", "w2"}

\* webhook deliveries in one run
MaxEnqueues == 2

IdleWorker ==
    [pc         |-> "idle",
     sid        |-> "",
     read       |-> "",          \* how the select ended: "ok" | "error"
     submission |-> None,        \* result.data of the select
     fetch      |-> "",          \* how fetch_exercise_content ended
     net        |-> FALSE,       \* _fetch_file_from_github was called
     bound      |-> {},          \* exception classes bound by the local imports
     g          |-> NewGrade(DefaultMaxRetries),
     updates    |-> <<>>,        \* updates issued by this call, with outcome
     exit       |-> "",          \* "return" | "raise"
     path       |-> ""]

OffWorker == [IdleWorker EXCEPT !.pc = "off"]

\* ExceptClause with every exception taken by the permanent-failure handler
ExceptClauseAllPermanent(bound, exc) ==
    IF ~({"ExerciseFetchError", "GradingError"} \subseteq bound)
    THEN "UnboundLocalError"
    ELSE "permanent"

\* Which handler of the try statement of process_submission takes an
\* exception of class exc.  The first except clause evaluates the tuple
\* (ExerciseFetchError, GradingError); both are local names bound by imports
\* inside the try body, and evaluating an unbound one raises
\* UnboundLocalError out of the whole statement.
ExceptClause(bound, exc) ==
    IF ~({"ExerciseFetchError", "GradingError"} \subseteq bound)
    THEN "UnboundLocalError"
    ELSE IF exc \in {"ExerciseFetchError", "GradingError"}
    THEN "permanent"
    ELSE "unexpected"

\* the worker's locals after exc was raised inside the try body
AfterRaise(rec, exc) ==
    LET h == ExceptClause(rec.bound, exc)
    IN  IF h = "UnboundLocalError"
        THEN [rec EXCEPT !.pc = "returned", !.exit = "raise", !.path = "escaped"]
        ELSE IF h = "permanent"
        THEN [rec EXCEPT !.pc = "mark_failed"]
        ELSE [rec EXCEPT !.pc = "returned", !.exit = "return",
                         !.path = "unexpected"]

Returned(rec, path) ==
    [rec EXCEPT !.pc = "returned", !.exit = "return", !.path = path]

\* Brpop that takes the left end of the list (the newest id)
BrpopTakesHead(w) ==
    /\ wk[w].pc = "idle"
    /\ queue # <<>>
    /\ wk' = [wk EXCEPT ![w] = [@ EXCEPT !.pc = "select",
                                         !.sid = queue[1]]]
    /\ queue' = Tail(queue)
    /\ deq_log' = Append(deq_log, queue[1])
    /\ UNCHANGED <<db, admin, enq_count, enq_log>>
    /\ UNCHANGED sanVars
    /\ UNCHANGED postVars
    /\ UNCHANGED hintVars
    /\ UNCHANGED twoVars

\* redis.brpop(GRADING_QUEUE_KEY): take the right end of the list.  A timeout
\* (None) loops back without any change of state.
Brpop(w) ==
    /\ wk[w].pc = "idle"
    /\ queue # <<>>
    /\ wk' = [wk EXCEPT ![w] = [@ EXCEPT !.pc = "select",
                                         !.sid = queue[Len(queue)]]]
    /\ queue' = SubSeq(queue, 1, Len(queue) - 1)
    /\ deq_log' = Append(deq_log, queue[Len(queue)])
    /\ UNCHANGED <<db, admin, enq_count, enq_log>>
    /\ UNCHANGED sanVars
    /\ UNCHANGED postVars
    /\ UNCHANGED hintVars
    /\ UNCHANGED twoVars

\* PassesGuard without the status guard (any existing row is processed)
PassesGuardAnyStatus(submission) ==
    submission # None

\* PassesGuard that skips only rows already graded
PassesGuardSkipsGradedOnly(submission) ==
    /\ submission # None
    /\ submission[1].status # "ai_graded"

\* lines 75-88: the not-found check and the status guard
PassesGuard(submission) ==
    /\ submission # None
    /\ submission[1].status = "submitted"

\* the select of the row, then the guard
SelectRow(w) ==
    /\ wk[w].pc = "select"
    /\ \E ok \in BOOLEAN :
          LET row  == db[wk[w].sid]
              data == IF row = NoRow THEN None ELSE Some(row)
          IN  wk' = [wk EXCEPT ![w] =
                  IF ~ok THEN Returned([@ EXCEPT !.read = "error"], "read_failed")
                  ELSE LET rec == [@ EXCEPT !.read = "ok", !.submission = data]
                       IN  IF PassesGuard(data)
                           THEN [rec EXCEPT !.pc = "fetch"]
                           ELSE Returned(rec, IF data = None THEN "not_found"
                                              ELSE "skipped")]
    /\ UNCHANGED <<db, queue, admin, enq_count, enq_log, deq_log>>
    /\ UNCHANGED sanVars
    /\ UNCHANGED postVars
    /\ UNCHANGED hintVars
    /\ UNCHANGED twoVars

\* fetch_exercise_content raises before _fetch_file_from_github when the
\* lesson id yields no exercise id
FetchesFile(lesson) ==
    ParseExerciseId(lesson) # <<>>

\* what fetch_exercise_content(lesson_id) may do
FetchOutcomes(lesson) ==
    IF ParseExerciseId(lesson) = <<>>
    THEN {"ExerciseFetchError"}
    ELSE {"ok", "ExerciseFetchError", "Exception"}

\* FetchContent that goes on to the grader whatever the fetch did
FetchContentThenGradeAnyway(w) ==
    /\ wk[w].pc = "fetch"
    /\ \E r \in FetchOutcomes(wk[w].submission[1].lesson_id) :
          wk' = [wk EXCEPT ![w] =
              [@ EXCEPT !.pc = "grade_start", !.fetch = r,
                        !.bound = {"ExerciseFetchError", "GradingError"}]]
    /\ UNCHANGED <<db, queue, admin, enq_count, enq_log, deq_log>>
    /\ UNCHANGED sanVars
    /\ UNCHANGED postVars
    /\ UNCHANGED hintVars
    /\ UNCHANGED twoVars

\* lines 96-109: import ExerciseFetchError, await fetch_exercise_content,
\* import GradingError
FetchContent(w) ==
    /\ wk[w].pc = "fetch"
    /\ \E r \in FetchOutcomes(wk[w].submission[1].lesson_id) :
          wk' = [wk EXCEPT ![w] =
              IF r = "ok"
              THEN [@ EXCEPT !.pc = "grade_start", !.fetch = r,
                             !.net = FetchesFile(wk[w].submission[1].lesson_id),
                             !.bound = {"ExerciseFetchError", "GradingError"}]
              ELSE AfterRaise([@ EXCEPT !.fetch = r,
                                        !.net = FetchesFile(wk[w].submission[1].lesson_id),
                                        !.bound = {"ExerciseFetchError"}], r)]
    /\ UNCHANGED <<db, queue, admin, enq_count, enq_log, deq_log>>
    /\ UNCHANGED sanVars
    /\ UNCHANGED postVars
    /\ UNCHANGED hintVars
    /\ UNCHANGED twoVars

\* where the caller goes on once the grade_submission call has ended
AfterGrade(rec) ==
    IF rec.g.state = "returned" THEN [rec EXCEPT !.pc = "update_graded"]
    ELSE IF rec.g.state = "raised" THEN AfterRaise(rec, rec.g.raised)
    ELSE [rec EXCEPT !.pc = "invoke"]

\* grade_submission up to the loop
GradeStart(w) ==
    /\ wk[w].pc = "grade_start"
    /\ \E r \in SetupOutcomes :
          wk' = [wk EXCEPT ![w] = AfterGrade([@ EXCEPT !.g = GradeSetup(@, r)])]
    /\ UNCHANGED <<db, queue, admin, enq_count, enq_log, deq_log>>
    /\ UNCHANGED sanVars
    /\ UNCHANGED postVars
    /\ UNCHANGED hintVars
    /\ UNCHANGED twoVars

\* one await structured_llm.ainvoke(prompt) and what follows it
Invoke(w) ==
    /\ wk[w].pc = "invoke"
    /\ \E o \in LlmOutcomes :
          wk' = [wk EXCEPT ![w] = AfterGrade([@ EXCEPT !.g = GradeStep(@, o)])]
    /\ UNCHANGED <<db, queue, admin, enq_count, enq_log, deq_log>>
    /\ UNCHANGED sanVars
    /\ UNCHANGED postVars
    /\ UNCHANGED hintVars
    /\ UNCHANGED twoVars

\* GradedFields that leaves status out (a partial combination)
GradedFieldsWithoutStatus(result) ==
    [llm_score    |-> Some(result.overall_score),
     llm_feedback |-> Some(result.feedback)]

\* GradedFields without the feedback list
GradedFieldsNoFeedback(result) ==
    [llm_score |-> Some(result.overall_score),
     status    |-> "ai_graded"]

\* the fields of the update issued on success
GradedFields(result) ==
    [llm_score    |-> Some(result.overall_score),
     llm_feedback |-> Some(result.feedback),
     status       |-> "ai_graded"]

\* FailedFields that also resets the score fields
FailedFieldsResetsScore ==
    [status |-> "grading_failed", llm_score |-> None, llm_feedback |-> None]

\* the fields of the update issued on permanent failure
FailedFields == [status |-> "grading_failed"]

\* lines 120-126: the ai_graded update; its failure is an unexpected error
UpdateGraded(w) ==
    /\ wk[w].pc = "update_graded"
    /\ LET fields == GradedFields(wk[w].g.result[1])
       IN  \E ok \in BOOLEAN :
             /\ db' = IF ok THEN [db EXCEPT ![wk[w].sid] = ApplyUpdate(@, fields)]
                      ELSE db
             /\ wk' = [wk EXCEPT ![w] =
                   LET rec == [@ EXCEPT !.updates =
                                   Append(@, [fields |-> fields, ok |-> ok])]
                   IN  IF ok THEN Returned(rec, "graded")
                       ELSE AfterRaise(rec, "Exception")]
    /\ UNCHANGED <<queue, admin, enq_count, enq_log, deq_log>>
    /\ UNCHANGED sanVars
    /\ UNCHANGED postVars
    /\ UNCHANGED hintVars
    /\ UNCHANGED twoVars

\* MarkFailed without the inner try: a failure of the update propagates
MarkFailedPropagates(w) ==
    /\ wk[w].pc = "mark_failed"
    /\ \E ok \in BOOLEAN :
          /\ db' = IF ok THEN [db EXCEPT ![wk[w].sid] = ApplyUpdate(@, FailedFields)]
                   ELSE db
          /\ wk' = [wk EXCEPT ![w] =
                LET rec == [@ EXCEPT !.updates =
                                Append(@, [fields |-> FailedFields, ok |-> ok])]
                IN  IF ok THEN Returned(rec, "failed_marked")
                    ELSE [rec EXCEPT !.pc = "returned", !.exit = "raise",
                                     !.path = "failed_unmarked"]]
    /\ UNCHANGED <<queue, admin, enq_count, enq_log, deq_log>>
    /\ UNCHANGED sanVars
    /\ UNCHANGED postVars
    /\ UNCHANGED hintVars
    /\ UNCHANGED twoVars

\* lines 144-157: the grading_failed update; its failure is swallowed
MarkFailed(w) ==
    /\ wk[w].pc = "mark_failed"
    /\ \E ok \in BOOLEAN :
          /\ db' = IF ok THEN [db EXCEPT ![wk[w].sid] = ApplyUpdate(@, FailedFields)]
                   ELSE db
          /\ wk' = [wk EXCEPT ![w] =
                Returned([@ EXCEPT !.updates =
                             Append(@, [fields |-> FailedFields, ok |-> ok])],
                         IF ok THEN "failed_marked" ELSE "failed_unmarked")]
    /\ UNCHANGED <<queue, admin, enq_count, enq_log, deq_log>>
    /\ UNCHANGED sanVars
    /\ UNCHANGED postVars
    /\ UNCHANGED hintVars
    /\ UNCHANGED twoVars

\* LoopBack without the catch-all: an exception out of process_submission
\* ends the loop
LoopBackCrashOnRaise(w) ==
    /\ wk[w].pc = "returned"
    /\ wk' = [wk EXCEPT ![w] = IF @.exit = "raise"
                               THEN [@ EXCEPT !.pc = "crashed"]
                               ELSE IdleWorker]
    /\ UNCHANGED <<db, queue, admin, enq_count, enq_log, deq_log>>
    /\ UNCHANGED sanVars
    /\ UNCHANGED postVars
    /\ UNCHANGED hintVars
    /\ UNCHANGED twoVars

\* LoopBack that pushes the id of a job that raised back on the queue
LoopBackRequeues(w) ==
    /\ wk[w].pc = "returned"
    /\ wk' = [wk EXCEPT ![w] = IdleWorker]
    /\ queue' = IF wk[w].exit = "raise" THEN <<wk[w].sid>> \o queue ELSE queue
    /\ UNCHANGED <<db, admin, enq_count, enq_log, deq_log>>
    /\ UNCHANGED sanVars
    /\ UNCHANGED postVars
    /\ UNCHANGED hintVars
    /\ UNCHANGED twoVars

\* run_worker: process_submission has returned, or raised into the catch-all
\* of the loop; the loop goes back to brpop
LoopBack(w) ==
    /\ wk[w].pc = "returned"
    /\ wk' = [wk EXCEPT ![w] = IdleWorker]
    /\ UNCHANGED <<db, queue, admin, enq_count, enq_log, deq_log>>
    /\ UNCHANGED sanVars
    /\ UNCHANGED postVars
    /\ UNCHANGED hintVars
    /\ UNCHANGED twoVars

----------------------------------------------------------------------------
(* receive_grading_webhook and review_submission *)

\* redis.lpush(GRADING_QUEUE_KEY, submission_id)
Enqueue(sid) ==
    /\ enq_count < MaxEnqueues
    /\ queue' = <<sid>> \o queue
    /\ enq_count' = enq_count + 1
    /\ enq_log' = Append(enq_log, sid)
    /\ UNCHANGED <<db, wk, admin, deq_log>>
    /\ UNCHANGED sanVars
    /\ UNCHANGED postVars
    /\ UNCHANGED hintVars
    /\ UNCHANGED twoVars

IdleAdmin == [pc |-> "idle", sid |-> "", current_status |-> "", resp |-> ""]

\* ReviewRead whose guard rejects only a row already reviewed
ReviewReadRejectsReviewedOnly(sid) ==
    /\ admin.pc = "idle"
    /\ \E ok \in BOOLEAN :
          LET row == db[sid]
          IN  admin' =
                IF ~ok \/ row = NoRow THEN [IdleAdmin EXCEPT !.resp = "404"]
                ELSE IF row.status = "human_reviewed"
                THEN [IdleAdmin EXCEPT !.resp = "409"]
                ELSE [pc |-> "write", sid |-> sid,
                      current_status |-> row.status, resp |-> ""]
    /\ UNCHANGED <<db, queue, wk, enq_count, enq_log, deq_log>>
    /\ UNCHANGED sanVars
    /\ UNCHANGED postVars
    /\ UNCHANGED hintVars
    /\ UNCHANGED twoVars

\* the select of review_submission and its status guard
ReviewRead(sid) ==
    /\ admin.pc = "idle"
    /\ \E ok \in BOOLEAN :
          LET row == db[sid]
          IN  admin' =
                IF ~ok \/ row = NoRow THEN [IdleAdmin EXCEPT !.resp = "404"]
                ELSE IF row.status = "human_reviewed"
                THEN [IdleAdmin EXCEPT !.resp = "409"]
                ELSE IF row.status \notin {"submitted", "ai_graded"}
                THEN [IdleAdmin EXCEPT !.resp = "422"]
                ELSE [pc |-> "write", sid |-> sid,
                      current_status |-> row.status, resp |-> ""]
    /\ UNCHANGED <<db, queue, wk, enq_count, enq_log, deq_log>>
    /\ UNCHANGED sanVars
    /\ UNCHANGED postVars
    /\ UNCHANGED hintVars
    /\ UNCHANGED twoVars

\* reviewer scores a request body may carry
ReviewerScores == {70}

\* ReviewFields that also overwrites the score of the LLM
ReviewFieldsOverwritesLlmScore(score) ==
    [reviewer_score |-> Some(score),
     llm_score      |-> Some(score),
     status         |-> "human_reviewed",
     reviewed_at    |-> Some("now")]

\* lines 222-234: the fields of the update issued by the review
ReviewFields(score) ==
    [reviewer_score |-> Some(score),
     status         |-> "human_reviewed",
     reviewed_at    |-> Some("now")]

\* the update of review_submission
ReviewWrite ==
    /\ admin.pc = "write"
    /\ \E ok \in BOOLEAN, score \in ReviewerScores :
          /\ db' = IF ok
                   THEN [db EXCEPT ![admin.sid] = ApplyUpdate(@, ReviewFields(score))]
                   ELSE db
          /\ admin' = [IdleAdmin EXCEPT !.resp = IF ok THEN "200" ELSE "500"]
    /\ UNCHANGED <<queue, wk, enq_count, enq_log, deq_log>>
    /\ UNCHANGED sanVars
    /\ UNCHANGED postVars
    /\ UNCHANGED hintVars
    /\ UNCHANGED twoVars

----------------------------------------------------------------------------
(* The grading system: workers, webhook producer, admin *)

SanOff ==
    /\ valid_ids = {}
    /\ buffer = <<>>
    /\ san_pc = "off"
    /\ san_in = <<>>
    /\ san_out = <<>>
    /\ san_n = 0
    /\ san_ret = <<>>
    /\ PostOff
    /\ HintOff
    /\ TwoOff

Init ==
    /\ \E lesson \in LessonIds :
          db = [s \in SubIds |-> IF s = "s1" THEN NewRow(lesson) ELSE NoRow]
    /\ queue = <<>>
    /\ wk = [w \in Workers |-> IdleWorker]
    /\ admin = IdleAdmin
    /\ enq_count = 0
    /\ enq_log = <<>>
    /\ deq_log = <<>>
    /\ SanOff

WorkerNext(w) ==
    \/ Brpop(w)
    \/ SelectRow(w)
    \/ FetchContent(w)
    \/ GradeStart(w)
    \/ Invoke(w)
    \/ UpdateGraded(w)
    \/ MarkFailed(w)
    \/ LoopBack(w)

Next ==
    \/ \E w \in Workers : WorkerNext(w)
    \/ \E sid \in SubIds : Enqueue(sid)
    \/ \E sid \in SubIds : ReviewRead(sid)
    \/ ReviewWrite

Spec == Init /\ [][Next]_vars

----------------------------------------------------------------------------
(* grade_submission called on its own, with any max_retries *)

\* largest max_retries a caller passes
MaxRetriesBound == 2

GradeInit ==
    /\ \E m \in 0..MaxRetriesBound :
          wk = [w \in Workers |->
                  IF w = "w1"
                  THEN [IdleWorker EXCEPT
                           !.pc = "grade_start",
                           !.bound = {"ExerciseFetchError", "GradingError"},
                           !.g = NewGrade(m)]
                  ELSE OffWorker]
    /\ db = [s \in SubIds |-> NoRow]
    /\ queue = <<>>
    /\ admin = [IdleAdmin EXCEPT !.pc = "off"]
    /\ enq_count = 0
    /\ enq_log = <<>>
    /\ deq_log = <<>>
    /\ SanOff

GradeNext ==
    \E w \in Workers : GradeStart(w) \/ Invoke(w)

SpecGrade == GradeInit /\ [][GradeNext]_vars

----------------------------------------------------------------------------
(* One worker process and the webhook producer *)

OneInit ==
    /\ \E lesson \in LessonIds :
          db = [s \in SubIds |-> IF s = "s1" THEN NewRow(lesson) ELSE NoRow]
    /\ queue = <<>>
    /\ wk = [w \in Workers |-> IF w = "w1" THEN IdleWorker ELSE OffWorker]
    /\ admin = [IdleAdmin EXCEPT !.pc = "off"]
    /\ enq_count = 0
    /\ enq_log = <<>>
    /\ deq_log = <<>>
    /\ SanOff

OneNext ==
    \/ WorkerNext("w1")
    \/ \E sid \in SubIds : Enqueue(sid)

\* run_worker is a  while True  loop: a worker that can take a step
\* eventually takes one; the webhook producer is under no obligation
SpecOne == OneInit /\ [][OneNext]_vars /\ WF_vars(WorkerNext("w1"))

----------------------------------------------------------------------------
(* Properties *)

\* C1 (checked under SpecSan). Chunking invariant: once the stream has been
\* flushed, the concatenation of everything feed and flush returned equals
\* postprocess_hint applied to the concatenation of the chunks.
ChunkingInvariant ==
    san_pc = "flushed" => san_out = PostprocessHint(san_in, valid_ids)

\* a status change the state machine forbids
Regresses(a, b) ==
    \/ a # "submitted" /\ b = "submitted"
    \/ a = "human_reviewed" /\ b \in {"ai_graded", "grading_failed"}
    \/ a = "ai_graded" /\ b = "grading_failed"
    \/ a = "grading_failed" /\ b = "ai_graded"

\* C2. In every interleaving of workers and the admin review endpoint no
\* step moves a row's status backwards: not back to submitted, not from
\* human_reviewed to ai_graded or grading_failed, not between ai_graded and
\* grading_failed.
StatusOnlyMovesForward ==
    [][\A s \in SubIds : ~Regresses(db[s].status, db'[s].status)]_vars

\* C3. Idempotent guard: a process_submission call whose select found no row,
\* or a row whose status is not submitted, has returned without issuing any
\* update, without calling the content provider and without any LLM call.
IdempotentGuard ==
    \A w \in Workers :
        LET rec == wk[w]
        IN  (/\ rec.read = "ok"
             /\ \/ rec.submission = None
                \/ rec.submission[1].status # "submitted")
            => /\ rec.pc = "returned"
               /\ rec.exit = "return"
               /\ rec.updates = <<>>
               /\ rec.fetch = ""
               /\ rec.g.invocations = 0

\* C3 witness: a call that read an existing row whose status had already
\* left submitted, and returned.
IdempotentGuardWitness ==
    \E w \in Workers :
        /\ wk[w].pc = "returned"
        /\ wk[w].read = "ok"
        /\ wk[w].submission # None
        /\ wk[w].submission[1].status \in {"ai_graded", "human_reviewed"}

\* C4. A call whose content fetch raised ExerciseFetchError has, when it
\* ends, issued exactly one update, setting status = grading_failed and no
\* other field.
ContentFetchFailureMarksFailed ==
    \A w \in Workers :
        (wk[w].pc = "returned" /\ wk[w].fetch = "ExerciseFetchError")
        => /\ Len(wk[w].updates) = 1
           /\ wk[w].updates[1].fields = [status |-> "grading_failed"]

\* C5. process_submission never ends by raising into run_worker's loop.
ProcessSubmissionNeverRaises ==
    \A w \in Workers : wk[w].exit # "raise"

\* C6 (checked under SpecGrade). Retry bound, total failure: a
\* grade_submission call that made attempts and ended by raising has made
\* exactly max_retries + 1 LLM invocations and raised GradingError.
RetryBoundTotalFailure ==
    \A w \in Workers :
        LET g == wk[w].g
        IN  (g.state = "raised" /\ g.log # <<>>)
            => /\ g.invocations = g.max_retries + 1
               /\ g.raised = "GradingError"

\* C7 (checked under SpecGrade). Retry bound, eventual success: as soon as
\* an attempt k yields a valid GradingResponse the call has returned exactly
\* that value, after k invocations with k <= max_retries + 1, every earlier
\* attempt having failed with an exception; the call returns in no other
\* way, and since the log never grows past the valid attempt, nothing is
\* invoked after it.
RetryBoundEventualSuccess ==
    \A w \in Workers :
        LET g == wk[w].g
            k == Len(g.log)
        IN  /\ (k >= 1 /\ g.log[k].t = "value")
               => /\ g.state = "returned"
                  /\ g.result = Some(g.last_llm[1].raw)
                  /\ g.result = Some(g.log[k].value)
                  /\ g.invocations = k
                  /\ k <= g.max_retries + 1
                  /\ \A j \in 1..(k - 1) : g.log[j].t = "exc"
            /\ g.state = "returned" => (k >= 1 /\ g.log[k].t = "value")

\* C7 witness: a call that returned on its third attempt.
RetryBoundEventualSuccessWitness ==
    \E w \in Workers :
        /\ wk[w].g.state = "returned"
        /\ wk[w].g.invocations = 3
        /\ wk[w].g.log[1].t = "exc"
        /\ wk[w].g.result[1].overall_score = 40

PermanentGradingFailure ==
    /\ [](\A w \in Workers :
            (wk[w].pc = "returned" /\ wk[w].g.raised = "GradingError")
            => /\ Len(wk[w].updates) = 1
               /\ wk[w].updates[1].fields = [status |-> "grading_failed"])
    /\ [][\A w \in Workers :
            (wk[w].pc = "mark_failed" /\ wk'[w].pc # "mark_failed")
            => LET sid == wk[w].sid
                   u   == wk'[w].updates[1]
               IN  /\ db'[sid].llm_score = db[sid].llm_score
                   /\ db'[sid].llm_feedback = db[sid].llm_feedback
                   /\ u.ok => db'[sid].status = "grading_failed"
                   /\ ~u.ok => db' = db]_vars

\* C9 witness: the LLM output failed validation on both attempts of the call
\* and the row was marked grading_failed.
PermanentGradingFailureWitness ==
    \E w \in Workers :
        /\ wk[w].pc = "returned"
        /\ wk[w].g.raised = "GradingError"
        /\ wk[w].g.invocations = 2
        /\ wk[w].g.cause = "ValidationError"
        /\ wk[w].updates[1].ok
        /\ db[wk[w].sid].status = "grading_failed"
        /\ db[wk[w].sid].llm_score = None

\* a call that ended on an unexpected error: the select failed, or something
\* other than ExerciseFetchError / GradingError was raised (by the content
\* fetch, by grade_submission, or by the ai_graded update)
UnexpectedEnd(rec) ==
    /\ rec.pc = "returned"
    /\ \/ rec.read = "error"
       \/ rec.fetch = "Exception"
       \/ rec.g.raised = "Exception"
       \/ /\ rec.updates # <<>>
          /\ rec.updates[Len(rec.updates)].fields.status = "ai_graded"
          /\ ~rec.updates[Len(rec.updates)].ok

\* C10. Unexpected errors leave the row alone: a call that ended on an
\* unexpected error has applied no update, the step on which it ended changed
\* no row, and the row it had read (if the select succeeded) was submitted.
UnexpectedLeavesRow ==
    /\ [](\A w \in Workers :
            UnexpectedEnd(wk[w])
            => /\ \A i \in 1..Len(wk[w].updates) : ~wk[w].updates[i].ok
               /\ wk[w].read = "ok" => wk[w].submission[1].status = "submitted")
    /\ [][\A w \in Workers :
            (~UnexpectedEnd(wk[w]) /\ UnexpectedEnd(wk'[w])) => db' = db]_vars

\* C10 witness: the ai_graded update itself failed and the row is still
\* submitted with no score.
UnexpectedLeavesRowWitness ==
    \E w \in Workers :
        /\ UnexpectedEnd(wk[w])
        /\ wk[w].updates # <<>>
        /\ db[wk[w].sid].status = "submitted"
        /\ db[wk[w].sid].llm_score = None

\* C11. Update contract: every update a worker has issued sets either
\* exactly llm_score, llm_feedback and status = ai_graded together, or
\* exactly status = grading_failed alone.
UpdateContract ==
    \A w \in Workers : \A i \in 1..Len(wk[w].updates) :
        LET f == wk[w].updates[i].fields
        IN  \/ /\ DOMAIN f = {"llm_score", "llm_feedback", "status"}
               /\ f.status = "ai_graded"
               /\ f.llm_score # None
               /\ f.llm_feedback # None
            \/ /\ DOMAIN f = {"status"}
               /\ f.status = "grading_failed"

\* C11 witness: one call has issued the ai_graded update while another call
\* has issued the grading_failed update.
UpdateContractWitness ==
    \E w, v \in Workers :
        /\ wk[w].updates # <<>>
        /\ wk[w].updates[1].fields.status = "ai_graded"
        /\ wk[v].updates # <<>>
        /\ wk[v].updates[1].fields.status = "grading_failed"

\* the closed schema of GradingResponse, spelled out
ClosedSchema(r) ==
    /\ DOMAIN r = {"overall_score", "feedback"}
    /\ r.overall_score \in Int
    /\ r.overall_score >= 0
    /\ r.overall_score <= 100
    /\ r.feedback # <<>>
    /\ \A i \in 1..Len(r.feedback) :
          /\ DOMAIN r.feedback[i] =
                 {"criterion", "points_awarded", "points_possible", "comment"}
          /\ r.feedback[i].points_awarded >= 0
          /\ r.feedback[i].points_possible >= 0

\* C12 as stated (checked under SpecGrade). Valid result or permanent error:
\* a grade_submission call that has ended either returned a GradingResponse
\* satisfying the closed schema or raised GradingError.
ValidResultOrGradingError ==
    \A w \in Workers :
        LET g == wk[w].g
        IN  /\ g.state = "returned"
               => (g.result # None /\ ClosedSchema(g.result[1]))
            /\ g.state = "raised" => g.raised = "GradingError"
            /\ g.state = "running" => g.result = None

\* C12 amended (checked under SpecGrade). A grade_submission call that has
\* ended either returned a GradingResponse satisfying the closed schema or
\* raised; nothing is returned otherwise.  What it raises is GradingError
\* once an LLM invocation has been made; before the first invocation a
\* missing API key raises GradingError and any other failure of the prompt
\* compilation or of building the client propagates as it is.
ValidResultOrError ==
    \A w \in Workers :
        LET g == wk[w].g
        IN  /\ g.state = "returned"
               => (g.result # None /\ ClosedSchema(g.result[1]))
            /\ g.state = "raised"
               => /\ g.result = None
                  /\ \/ g.raised = "GradingError"
                     \/ g.raised = "Exception" /\ g.invocations = 0
            /\ g.state = "running" => g.result = None

\* C12 witness: the LLM produced an object that breaks the schema
\* (overall_score 101) on the last attempt and the call raised GradingError
\* instead of returning it.
ValidResultOrErrorWitness ==
    \E w \in Workers :
        /\ wk[w].g.state = "raised"
        /\ wk[w].g.raised = "GradingError"
        /\ wk[w].g.cause = "ValidationError"
        /\ wk[w].g.last_llm[1].kind = "object"
        /\ wk[w].g.last_llm[1].raw.overall_score = 101
        /\ wk[w].g.result = None

\* C13 (checked under SpecSan). No partial marker is emitted: when a feed
\* call is made, no candidate marker of the input received so far (the new
\* chunk included) has its first characters among the text that earlier feed
\* calls already normalized and returned, and its remaining characters after
\* them; so each candidate marker is normalized whole by one call.
NoPartialMarkerEmitted ==
    [][(san_n' = san_n + 1) =>
          LET emitted == Len(san_in) - Len(buffer)
          IN  \A m \in MarkerSpans(san_in', 1) :
                  ~(m.start <= emitted /\ emitted < m.stop - 1)]_vars

\* C14 (checked under SpecPost). Output contains only valid markers: every
\* well-formed tag [ref:ID] in what postprocess_hint returned has ID in the
\* valid-ID set.
OutputOnlyValidMarkers ==
    post_pc \in {"done", "again"} => CleanMarkerIds(post_out) \subseteq post_ids

\* C15 (checked under SpecPost). Idempotence of normalize: normalizing the
\* output of postprocess_hint once more returns it unchanged.
NormalizeIdempotent ==
    post_pc = "again" => post_out2 = post_out

\* plain text around a marker: words and spaces
PlainPieces == { <<"i", "s">>, <<" ">> }

PlainTexts ==
    { Flatten(ps) :
        ps \in UNION { [1..n -> PlainPieces] : n \in 0..(MaxPieces - 1) } }
        \cup { <<"T", "h", "e", " ", "a", "r", "e", "a", " ", "i", "s">>, <<" ", "s", "q", "u", "a", "r", "e", "d">> }

\* the well-formed marker with id X
CleanMarker(X) == OpenTag \o X \o <<"]">>

\* the forms in which the LLM writes a marker with body X: [ref:X], [ref-X],
\* ref-X] (opening bracket missing)
MarkerForms(X) ==
    { OpenTag \o X \o <<"]">>,
      <<"[">> \o RefDash \o X \o <<"]">>,
      RefDash \o X \o <<"]">> }

\* marker bodies the texts carry
Bodies == { <<"a">>, <<"r", "e", "f", "-", "a">>, <<"e", "q", "-", "1">> }

\* C16 (checked under SpecPost). Valid-ID passthrough: for every id X of the
\* valid-ID set (ids are opaque strings), a text made of the well-formed
\* marker [ref:X] alone, or of that marker between plain words and spaces, is
\* returned unchanged by postprocess_hint.
ValidIdPassthrough ==
    post_pc \in {"done", "again"} =>
        \A X \in post_ids : \A pre \in PlainTexts, post \in PlainTexts :
            post_text = pre \o CleanMarker(X) \o post => post_out = post_text

ScenarioDDone ==
    /\ valid_ids = {}
    /\ san_n = 4
    /\ san_in = <<"T", "h", "e", " ", "v", "a", "l", "u", "e", " ", "i", "s", " ", "[", "r", "e", "f", ":", "r", "e", "f", "-", "x", "9", "]", " ", "d", "o", "n", "e">>
    /\ san_pc = "flushed"

\* C19 as stated (checked under SpecScenario). Scenario D: the concatenation
\* of all returned strings is exactly  The value is done.
ScenarioDSingleSpace ==
    ScenarioDDone => san_out = <<"T", "h", "e", " ", "v", "a", "l", "u", "e", " ", "i", "s", " ", "d", "o", "n", "e">>

\* C19 amended (checked under SpecScenario). Scenario D: the concatenation of
\* all returned strings is  The value is  done  (the marker is removed, the
\* space before it and the space after it stay), with no bracket left.
ScenarioDOutput ==
    ScenarioDDone =>
        /\ san_out = <<"T", "h", "e", " ", "v", "a", "l", "u", "e", " ", "i", "s", " ", " ", "d", "o", "n", "e">>
        /\ \A i \in 1..Len(san_out) : san_out[i] \notin {"[", "]"}

\* C19 witness: Scenario D has run to its end and the last call, flush,
\* returned the empty string.
ScenarioDWitness ==
    /\ ScenarioDDone
    /\ buffer = <<>>
    /\ san_ret = <<>>

\* C20 (checked under SpecSan). flush returns the normalization of the whole
\* remaining buffer, whether or not it ends in an incomplete marker, and
\* empties the buffer; the buffer is always the end of the input received, so
\* nothing withheld is lost; a flush right after a flush returns the empty
\* string.
FlushReturnsRemainder ==
    /\ [](/\ Len(buffer) <= Len(san_in)
          /\ buffer = SubSeq(san_in, Len(san_in) - Len(buffer) + 1, Len(san_in))
          /\ san_pc = "flushed" => buffer = <<>>)
    /\ [][(san_pc' = "flushed") =>
             /\ san_ret' = PostprocessHint(buffer, valid_ids)
             /\ san_out' = san_out \o san_ret'
             /\ buffer' = <<>>
             /\ san_pc = "flushed" => san_ret' = <<>>]_vars

\* C20 witness: the stream ended inside a marker (a then [ref:), the first
\* flush returned the withheld [ref: and a second flush returned the empty
\* string.
FlushReturnsRemainderWitness ==
    /\ san_pc = "flushed"
    /\ san_in = <<"a", "[", "r", "e", "f", ":">>
    /\ san_out = <<"a", "[", "r", "e", "f", ":">>
    /\ san_ret = <<>>
    /\ buffer = <<>>

\* an event that ends the stream
Terminal(e) == e.kind \in {"done", "error"}

\* C21 (checked under SpecHint). Hint stream termination: a terminal event
\* is only ever the last event sent and the stream has ended with it, so no
\* data event follows it; a stream that ended sent exactly one terminal
\* event, [ERROR] (and no [DONE]) when stream_hint raised, [DONE] when it did
\* not, and sse_generator raised nothing.
HintStreamTermination ==
    LET n == Len(sse_events)
    IN  /\ \A i \in 1..n :
              Terminal(sse_events[i]) => (i = n /\ sse_pc = "ended")
        /\ sse_pc = "ended" =>
              /\ n >= 1
              /\ Terminal(sse_events[n])
              /\ ~sse_raised
              /\ sse_exc # "" => sse_events[n].kind = "error"
              /\ sse_exc = "" => sse_events[n].kind = "done"

\* C21 witness: data events were sent, then the stream raised an exception
\* other than GradingError and ended with [ERROR].
HintStreamTerminationWitness ==
    /\ sse_pc = "ended"
    /\ sse_exc = "Exception"
    /\ Len(sse_events) >= 3
    /\ sse_events[1].kind = "data"
    /\ sse_events[Len(sse_events)].kind = "error"

\* t from position j to its end is a beginning of  ref<sep><id> : r, re,
\* ref, or ref- / ref: followed by ID characters only (letter case ignored)
RefStartToEnd(t, j) ==
    LET k == Len(t) - j + 1
    IN  \/ k = 1 /\ ToLower(t[j]) = "r"
        \/ k = 2 /\ ToLower(t[j]) = "r" /\ ToLower(t[j + 1]) = "e"
        \/ k = 3 /\ LitRef(t, j)
        \/ k >= 4 /\ RefSep(t, j) /\ IdRunEnd(t, j + 4) = Len(t) + 1

\* t from position i to its end looks like the start of an unterminated
\* candidate: an optional fused word, then an unclosed bracket fragment or a
\* bare ref / partial-ref token
UnterminatedStartAt(t, i) ==
    \E e \in i..WordRunEnd(t, i) :
        /\ e <= Len(t)
        /\ \/ t[e] = "[" /\ (e = Len(t) \/ RefStartToEnd(t, e + 1))
           \/ RefStartToEnd(t, e)

\* where the longest such suffix of t starts, 0 when there is none
LongestStart(t) ==
    LET S == {i \in 1..Len(t) : UnterminatedStartAt(t, i)}
    IN  IF S = {} THEN 0 ELSE MinOf(S)

\* C22 (checked under SpecSan). feed withholds every trailing suffix that
\* looks like the start of an unterminated candidate: after a feed call the
\* buffer is the longest suffix of (old buffer + chunk) that is an unclosed
\* bracket fragment, a bare ref or partial-ref token, or a fused word
\* followed by one of them, and the call returned the normalization of the
\* text before it.
FeedWithholdsStart ==
    [][(san_n' = san_n + 1) =>
          LET b == buffer \o SubSeq(san_in', Len(san_in) + 1, Len(san_in'))
              s == LongestStart(b)
          IN  /\ buffer' = IF s = 0 THEN <<>> ELSE SubSeq(b, s, Len(b))
              /\ san_ret' = PostprocessHint(
                                IF s = 0 THEN b ELSE SubSeq(b, 1, s - 1),
                                valid_ids)]_vars

\* C23 (checked under SpecGrade). A wrong-shape result is a failed attempt,
\* not a terminal outcome: when attempt j yields a value that is not a
\* GradingResponse and attempts remain (j <= max_retries), the call does not
\* end on that attempt.
WrongShapeIsRetried ==
    \A w \in Workers :
        LET g == wk[w].g
        IN  \A j \in 1..Len(g.log) :
                (g.log[j].t = "wrongtype" /\ j <= g.max_retries)
                => ~(g.state = "raised" /\ g.invocations = j)

\* C24 (checked under SpecGrade). When all max_retries + 1 attempts have
\* failed with an exception, the GradingError raised has the exception of
\* the last attempt as its cause; whenever a GradingError raised by the call
\* has a cause at all, it is the exception of the most recent attempt, never
\* that of an earlier one.
CauseIsLastFailure ==
    \A w \in Workers :
        LET g == wk[w].g
            n == Len(g.log)
        IN  /\ (/\ g.state = "raised"
                /\ n = g.max_retries + 1
                /\ \A j \in 1..n : g.log[j].t = "exc")
               => (g.raised = "GradingError" /\ g.cause = g.log[n].exc)
            /\ g.cause # "" =>
                  (n >= 1 /\ g.log[n].t = "exc" /\ g.cause = g.log[n].exc)

\* C24 witness: the first attempt failed with a network error, the second
\* and last with a provider error, and the GradingError carries the latter.
CauseIsLastFailureWitness ==
    \E w \in Workers :
        /\ wk[w].g.state = "raised"
        /\ wk[w].g.raised = "GradingError"
        /\ Len(wk[w].g.log) = 2
        /\ wk[w].g.log[1].t = "exc"
        /\ wk[w].g.log[1].exc = "NetworkError"
        /\ wk[w].g.log[2].t = "exc"
        /\ wk[w].g.log[2].exc = "ProviderError"
        /\ wk[w].g.cause = "ProviderError"

\* C25 (checked under SpecOne, which states the fairness of the worker
\* loop). The consume loop survives bad jobs: a process_submission call that
\* has ended, by returning or by raising, is followed by the loop being back
\* at its dequeue; and the k-th id pushed on the queue is eventually popped
\* and its job run to its end, whatever the jobs before it did.
ConsumeLoopSurvives ==
    /\ (wk["w1"].pc = "returned") ~> (wk["w1"].pc = "idle")
    /\ \A k \in 1..MaxEnqueues :
          (Len(enq_log) >= k)
              ~> \/ Len(deq_log) > k
                 \/ Len(deq_log) = k /\ wk["w1"].pc \in {"returned", "idle"}

\* C25 witness: the row's lesson id has no exercise part, so the first job
\* on s1 failed (its select failed or its content fetch raised); the second
\* job on s1 was dequeued after it and has raised as well.
ConsumeLoopSurvivesWitness ==
    /\ db["s1"] # NoRow
    /\ db["s1"].lesson_id = <<"p">>
    /\ deq_log = <<"s1", "s1">>
    /\ wk["w1"].pc = "returned"
    /\ wk["w1"].exit = "raise"

\* C26. Order of events within one process_submission call: the select of
\* the row comes first; the content fetch is made only after a successful
\* select; the grader runs only after the content fetch succeeded; an update
\* is issued only after the fetch was attempted, and the ai_graded update
\* only after grade_submission returned a result.  No step of a call goes
\* back to an earlier stage.
EventOrder ==
    [][\A w \in Workers :
          LET a == wk[w]
              b == wk'[w]
          IN  (a.pc \notin {"idle", "returned", "off"} /\ b # a) =>
                /\ b.read # a.read => a.pc = "select" /\ a.fetch = ""
                /\ b.fetch # a.fetch =>
                      a.pc = "fetch" /\ a.read = "ok" /\ a.g = IdleWorker.g
                /\ b.g # a.g =>
                      /\ a.pc \in {"grade_start", "invoke"}
                      /\ a.fetch = "ok"
                      /\ a.updates = <<>>
                /\ b.updates # a.updates =>
                      /\ a.pc \in {"update_graded", "mark_failed"}
                      /\ a.fetch # ""
                      /\ a.updates = <<>>
                      /\ Len(b.updates) = 1
                      /\ b.updates[1].fields.status = "ai_graded" =>
                            /\ a.fetch = "ok"
                            /\ a.g.state = "returned"
                            /\ a.g.invocations > 0
                            /\ a.g.result # None
    ]_vars

\* C26 witness: a call that went through all four stages (the ai_graded
\* update was issued after a retried grading), next to a call whose fetch
\* failed and which ended without any grading and without any update.
EventOrderWitness ==
    \E w, v \in Workers :
        /\ wk[w].pc = "returned"
        /\ wk[w].fetch = "ok"
        /\ wk[w].g.invocations = 2
        /\ wk[w].updates # <<>>
        /\ wk[w].updates[1].fields.status = "ai_graded"
        /\ wk[v].pc = "returned"
        /\ wk[v].fetch = "ExerciseFetchError"
        /\ wk[v].g = IdleWorker.g
        /\ wk[v].updates = <<>>

\* C27 (single worker, SpecOne). FIFO order: the ids dequeued so far are, in
\* order, the first ids the webhook pushed; the job in progress is the one
\* dequeued last; and an id is dequeued only when the worker is at its brpop,
\* the call on the id dequeued before it having ended.
FifoOrder ==
    /\ [](/\ Len(deq_log) <= Len(enq_log)
          /\ deq_log = SubSeq(enq_log, 1, Len(deq_log))
          /\ queue = [i \in 1..(Len(enq_log) - Len(deq_log)) |->
                         enq_log[Len(enq_log) + 1 - i]])
    /\ [](wk["w1"].pc # "idle" =>
            /\ deq_log # <<>>
            /\ wk["w1"].sid = deq_log[Len(deq_log)])
    /\ [][deq_log' # deq_log =>
            /\ wk["w1"].pc = "idle"
            /\ Len(deq_log') = Len(deq_log) + 1
            /\ wk'["w1"].pc = "select"
            /\ wk'["w1"].sid = enq_log[Len(deq_log')]
         ]_vars

\* C27 witness: two different ids were pushed, s1 first; both were dequeued
\* and the call on the second has ended.
FifoOrderWitness ==
    /\ enq_log = <<"s1", "s2">>
    /\ deq_log = <<"s1", "s2">>
    /\ wk["w1"].sid = "s2"
    /\ wk["w1"].pc = "returned"

\* how many times x occurs in the sequence q
RECURSIVE Count(_, _)
Count(q, x) ==
    IF q = <<>> THEN 0
    ELSE (IF Head(q) = x THEN 1 ELSE 0) + Count(Tail(q), x)

\* C28. A dequeue is final: every id pushed is either still on the queue or
\* was dequeued, once per push; the queue grows only by a push of the
\* webhook, never by a step of a worker; and a process_submission call
\* starts only by dequeuing its id, so the calls made on an id never
\* outnumber the pushes of that id.
DequeueIsFinal ==
    /\ [](\A x \in SubIds :
             Count(deq_log, x) + Count(queue, x) = Count(enq_log, x))
    /\ [][/\ wk' # wk =>
               \/ queue' = queue
               \/ /\ queue # <<>>
                  /\ queue' = SubSeq(queue, 1, Len(queue) - 1)
          /\ queue' # queue /\ Len(queue') >= Len(queue) =>
               /\ wk' = wk
               /\ Len(enq_log') = Len(enq_log) + 1
               /\ queue' = <<enq_log'[Len(enq_log')]>> \o queue
          /\ \A w \in Workers :
               wk'[w].pc = "select" /\ wk[w].pc # "select" =>
                 /\ wk[w].pc = "idle"
                 /\ deq_log' = Append(deq_log, wk'[w].sid)
                 /\ Count(queue', wk'[w].sid) = Count(queue, wk'[w].sid) - 1
         ]_vars

\* C28 witness: the only push of s1 was dequeued, the call on it failed and
\* has ended with the row still at submitted; the queue is empty and every
\* worker is back at its brpop.
DequeueIsFinalWitness ==
    /\ enq_log = <<"s1">>
    /\ deq_log = <<"s1">>
    /\ queue = <<>>
    /\ db["s1"].status = "submitted"
    /\ \A w \in Workers : wk[w].pc = "idle"

\* C29. Field ownership: no update issued by a worker names reviewer_score,
\* final_score or reviewed_at, and no worker step changes reviewer_score or
\* reviewed_at of any row; the update of the review endpoint names neither
\* llm_score nor llm_feedback, and the step that issues it leaves both as
\* they were in every row.
FieldOwnership ==
    /\ [](/\ \A w \in Workers : \A i \in 1..Len(wk[w].updates) :
               DOMAIN wk[w].updates[i].fields
                   \cap {"reviewer_score", "final_score", "reviewed_at"} = {}
          /\ \A score \in ReviewerScores :
               DOMAIN ReviewFields(score)
                   \cap {"llm_score", "llm_feedback"} = {})
    /\ [][\A s \in SubIds :
            db[s] # NoRow =>
              /\ db'[s] # NoRow
              /\ wk' # wk =>
                    /\ db'[s].reviewer_score = db[s].reviewer_score
                    /\ db'[s].reviewed_at = db[s].reviewed_at
              /\ admin' # admin =>
                    /\ db'[s].llm_score = db[s].llm_score
                    /\ db'[s].llm_feedback = db[s].llm_feedback
         ]_vars

\* C29 witness: a row the worker graded and the reviewer then reviewed: the
\* fields of both owners are set, the worker's as the worker wrote them.
FieldOwnershipWitness ==
    /\ db["s1"] # NoRow
    /\ db["s1"].status = "human_reviewed"
    /\ db["s1"].llm_score # None
    /\ db["s1"].llm_feedback # None
    /\ db["s1"].reviewer_score # None
    /\ db["s1"].reviewed_at # None
    /\ admin.resp = "200"
    /\ \E w \in Workers :
          /\ wk[w].updates # <<>>
          /\ wk[w].updates[1].ok
          /\ wk[w].updates[1].fields.status = "ai_graded"
          /\ wk[w].updates[1].fields.llm_score = db["s1"].llm_score

\* what the calls return, in order, on an instance run alone from buffer buf
RECURSIVE RunAlone(_, _, _)
RunAlone(buf, ids, calls) ==
    IF calls = <<>> THEN <<>>
    ELSE LET c == Head(calls)
         IN  IF c.op = "feed"
             THEN <<FeedReturn(buf, c.chunk, ids)>>
                    \o RunAlone(FeedBuffer(buf, c.chunk), ids, Tail(calls))
             ELSE <<FlushReturn(buf, ids)>> \o RunAlone(<<>>, ids, Tail(calls))

\* the buffer of an instance run alone after the calls
RECURSIVE BufferAlone(_, _)
BufferAlone(buf, calls) ==
    IF calls = <<>> THEN buf
    ELSE IF Head(calls).op = "feed"
    THEN BufferAlone(FeedBuffer(buf, Head(calls).chunk), Tail(calls))
    ELSE BufferAlone(<<>>, Tail(calls))

\* C30. Sanitizer instances are isolated: under every interleaving of feed
\* and flush calls on two instances, the strings an instance has returned
\* are those it returns when its own calls are run alone, and so is its
\* buffer; a call on one instance leaves the other instance's buffer and
\* valid-id set as they were, and no call changes a valid-id set.
InstancesIsolated ==
    /\ [](\A i \in Instances :
             /\ procs[i].rets =
                   RunAlone(<<>>, procs[i].valid_ids, procs[i].calls)
             /\ procs[i].buffer = BufferAlone(<<>>, procs[i].calls))
    /\ [][\A i \in Instances :
            /\ procs'[i].valid_ids = procs[i].valid_ids
            /\ procs'[i].calls = procs[i].calls => procs'[i] = procs[i]
         ]_vars

\* C30 witness: both instances were fed the same incomplete marker; p2 was
\* then fed the closing bracket and returned the marker, its buffer now
\* empty, while p1 still holds its own copy of the incomplete marker.
InstancesIsolatedWitness ==
    /\ procs["p1"].valid_ids = { <<"a">> }
    /\ procs["p2"].valid_ids = { <<"a">> }
    /\ procs["p1"].calls = << [op |-> "feed", chunk |-> <<"[", "r", "e", "f", ":", "a">>] >>
    /\ procs["p1"].buffer = <<"[", "r", "e", "f", ":", "a">>
    /\ procs["p1"].rets = << <<>> >>
    /\ Len(procs["p2"].calls) = 2
    /\ procs["p2"].calls[2] = [op |-> "feed", chunk |-> <<"]">>]
    /\ procs["p2"].buffer = <<>>
    /\ procs["p2"].rets[1] = <<>>
    /\ procs["p2"].rets[2] # <<>>

\* t is  [ref:  or  [ref-  followed only by ID characters
OpenRun(t) ==
    /\ Len(t) >= 5
    /\ SubSeq(t, 1, 5) \in { <<"[", "r", "e", "f", ":">>,
                             <<"[", "r", "e", "f", "-">> }
    /\ \A k \in 6..Len(t) : IsIdChar(t[k])

\* C31. The buffer is unbounded: while the buffer is an unterminated run
\* [ref: or [ref- followed only by ID characters, a feed of ID characters
\* returns the empty string and lengthens the buffer by the length of the
\* chunk, whatever the length of the buffer is; the buffer is then again
\* such a run.
BufferGrowsUnbounded ==
    [][LET chunk == SubSeq(san_in', Len(san_in) + 1, Len(san_in'))
       IN  (/\ san_n' = san_n + 1
            /\ OpenRun(buffer)
            /\ chunk # <<>>
            /\ \A k \in 1..Len(chunk) : IsIdChar(chunk[k])) =>
              /\ san_ret' = <<>>
              /\ san_out' = san_out
              /\ buffer' = buffer \o chunk
              /\ Len(buffer') = Len(buffer) + Len(chunk)
              /\ OpenRun(buffer')]_vars

\* C31 witness: every chunk fed so far is still in the buffer, which has
\* grown with each of three feeds of ID characters after the opening run.
BufferGrowsUnboundedWitness ==
    /\ san_pc = "streaming"
    /\ san_n >= 4
    /\ OpenRun(buffer)
    /\ buffer = san_in
    /\ san_out = <<>>
    /\ Len(buffer) >= 17

\* C32. Admin review guard: the review goes on to its write only when the
\* status it read is submitted or ai_graded, and the write sets
\* reviewer_score and status = human_reviewed; it answers 409 only for a row
\* read as human_reviewed and 422 only for a row read with any other status,
\* and a request answered 409 or 422 has ended without a write.  No step
\* other than the write of a review that passed the guard makes a row
\* human_reviewed.
ReviewGuard ==
    [][/\ (admin' # admin /\ admin.pc = "idle") =>
            /\ db' = db
            /\ admin'.pc = "write" =>
                  /\ db[admin'.sid] # NoRow
                  /\ db[admin'.sid].status \in {"submitted", "ai_graded"}
                  /\ admin'.current_status = db[admin'.sid].status
            /\ admin'.resp = "409" =>
                  /\ admin'.pc = "idle"
                  /\ \E s \in SubIds :
                        db[s] # NoRow /\ db[s].status = "human_reviewed"
            /\ admin'.resp = "422" =>
                  /\ admin'.pc = "idle"
                  /\ \E s \in SubIds :
                        /\ db[s] # NoRow
                        /\ db[s].status \notin
                              {"submitted", "ai_graded", "human_reviewed"}
       /\ (admin' # admin /\ admin.pc = "write") =>
            /\ admin.current_status \in {"submitted", "ai_graded"}
            /\ admin'.pc = "idle"
            /\ admin'.resp \in {"200", "500"}
            /\ db' # db =>
                  /\ admin'.resp = "200"
                  /\ db'[admin.sid].status = "human_reviewed"
                  /\ db'[admin.sid].reviewer_score # None
       /\ \A s \in SubIds :
            (db[s] # NoRow /\ db'[s].status = "human_reviewed"
                          /\ db[s].status # "human_reviewed") =>
               /\ admin.pc = "write"
               /\ admin.sid = s
               /\ admin.current_status \in {"submitted", "ai_graded"}
      ]_vars

\* C32 witness: a review was written (the row is human_reviewed with a
\* reviewer score) and a later review of the same row was answered 409.
ReviewGuardWitness ==
    /\ db["s1"] # NoRow
    /\ db["s1"].status = "human_reviewed"
    /\ db["s1"].reviewer_score # None
    /\ admin.pc = "idle"
    /\ admin.resp = "409"

\* a review of a grading_failed row was answered 422
ReviewGuardRejects422 ==
    /\ db["s1"] # NoRow
    /\ db["s1"].status = "grading_failed"
    /\ db["s1"].reviewer_score = None
    /\ admin.resp = "422"

\* the texts of the data events among the first n events, concatenated
RECURSIVE DataText(_, _)
DataText(ev, n) ==
    IF n = 0 THEN <<>>
    ELSE DataText(ev, n - 1) \o (IF ev[n].kind = "data" THEN ev[n].text
                                  ELSE <<>>)

\* C33 (checked under SpecHint). On normal completion of the token stream
\* flush is called once, after the last feed: the processor is flushed
\* exactly when the stream ended without an exception, and nothing is fed or
\* flushed afterwards.  Each non-empty output of feed and the non-empty
\* remainder of flush is sent as one data event when it is produced, so the
\* data events carry the outputs in the order produced, none of them empty;
\* [DONE] is the last event and every data event precedes it.
FlushOnceThenDone ==
    /\ [](LET n == Len(sse_events)
          IN  /\ (san_pc = "flushed") <=> (sse_pc = "ended" /\ sse_exc = "")
              /\ DataText(sse_events, n) = san_out
              /\ \A i \in 1..n :
                    sse_events[i].kind = "data" => sse_events[i].text # <<>>
              /\ san_pc = "flushed" =>
                    /\ buffer = <<>>
                    /\ sse_events[n] = DoneEvent
                    /\ \A i \in 1..(n - 1) : sse_events[i].kind = "data")
    /\ [][/\ san_pc = "flushed" => UNCHANGED <<sanVars, sse_events>>
          /\ (sse_pc = "streaming" /\ sse_exc' = "") =>
                LET sent == IF san_ret' # <<>> THEN <<DataEvent(san_ret')>>
                            ELSE <<>>
                IN  /\ san_pc' = "streaming" => sse_events' = sse_events \o sent
                    /\ san_pc' = "flushed" =>
                          /\ san_ret' = FlushReturn(buffer, valid_ids)
                          /\ sse_events' = sse_events \o sent \o <<DoneEvent>>
         ]_vars

\* C33 witness: a feed returned text, a later feed was held back, and the
\* flush at the end of the stream returned the remainder: two data events in
\* that order, then [DONE].
FlushOnceThenDoneWitness ==
    /\ san_pc = "flushed"
    /\ sse_pc = "ended"
    /\ san_n >= 2
    /\ san_ret # <<>>
    /\ Len(sse_events) = 3
    /\ sse_events[1].kind = "data"
    /\ sse_events[2] = DataEvent(san_ret)
    /\ sse_events[3] = DoneEvent

\* C34 (single worker, no admin: SpecOne). Whatever ids are pushed, and
\* however often: a worker step changes a row only if the row is at
\* submitted, and the row then leaves submitted; a row that has left
\* submitted is never changed again, so each row is written successfully at
\* most once; and the content fetch and the LLM are invoked for an id only
\* while its row is at submitted.
WrittenAtMostOnce ==
    [][/\ \A s \in SubIds :
            /\ db'[s] # db[s] =>
                  /\ db[s] # NoRow
                  /\ db[s].status = "submitted"
                  /\ db'[s].status \in {"ai_graded", "grading_failed"}
                  /\ wk["w1"].sid = s
                  /\ Len(wk'["w1"].updates) = 1
                  /\ wk'["w1"].updates[1].ok
            /\ (db[s] # NoRow /\ db[s].status # "submitted") =>
                  db'[s] = db[s]
       /\ (\/ wk'["w1"].fetch # wk["w1"].fetch /\ wk'["w1"].fetch # ""
           \/ wk'["w1"].g.invocations > wk["w1"].g.invocations) =>
            /\ db[wk["w1"].sid] # NoRow
            /\ db[wk["w1"].sid].status = "submitted"
      ]_vars

\* C34 witness: s1 was pushed twice; the first job graded the row, the
\* second found it at ai_graded and returned without fetch, LLM or write.
WrittenAtMostOnceWitness ==
    /\ deq_log = <<"s1", "s1">>
    /\ db["s1"] # NoRow
    /\ db["s1"].status = "ai_graded"
    /\ wk["w1"].pc = "returned"
    /\ wk["w1"].path = "skipped"
    /\ wk["w1"].fetch = ""
    /\ wk["w1"].g.invocations = 0
    /\ wk["w1"].updates = <<>>

\* C35. Row consistency under concurrency: in every reachable state a row
\* at grading_failed has neither llm_score nor llm_feedback, and a row at
\* ai_graded has both.
RowConsistency ==
    \A s \in SubIds :
        db[s] # NoRow =>
          /\ db[s].status = "grading_failed" =>
                db[s].llm_score = None /\ db[s].llm_feedback = None
          /\ db[s].status = "ai_graded" =>
                db[s].llm_score # None /\ db[s].llm_feedback # None

\* t is a prefix of  ref:  or  ref-  (letter case ignored), optionally
\* followed by ID characters when the prefix is complete
RefPrefixThenIds(t) ==
    \/ t = <<>>
    \/ Len(t) = 1 /\ ToLower(t[1]) = "r"
    \/ Len(t) = 2 /\ ToLower(t[1]) = "r" /\ ToLower(t[2]) = "e"
    \/ Len(t) = 3 /\ LitRef(t, 1)
    \/ /\ Len(t) >= 4
       /\ RefSep(t, 1)
       /\ \A k \in 5..Len(t) : IsIdChar(t[k])

\* C36. Sanitizer buffer shape: after every feed the buffer is empty, or is
\* optional word characters, then one '[', then a prefix of ref: or ref-
\* optionally followed by ID characters; it holds no ']' and no whitespace.
\* After flush the buffer is empty.
BufferShape ==
    /\ san_pc = "flushed" => buffer = <<>>
    /\ buffer # <<>> =>
          LET e == WordRunEnd(buffer, 1)
          IN  /\ e <= Len(buffer)
              /\ buffer[e] = "["
              /\ RefPrefixThenIds(SubSeq(buffer, e + 1, Len(buffer)))
              /\ \A k \in 1..Len(buffer) : buffer[k] \notin {"]", " ", "\n"}

\* C37. Sanitizer input conservation: every feed cuts the old buffer
\* followed by the chunk in two at one point; what is before the point is
\* the raw text released (the call returns its normalization, or the empty
\* string when nothing is released) and what is after it is the new buffer.
\* So, as long as only feed was called, the buffer is the end of the input
\* fed so far and the raw text released is the input before it: nothing is
\* dropped, duplicated or reordered.
InputConservation ==
    /\ [](san_pc = "streaming" =>
            /\ Len(buffer) <= Len(san_in)
            /\ buffer = SubSeq(san_in, Len(san_in) - Len(buffer) + 1,
                               Len(san_in)))
    /\ [][(san_n' = san_n + 1) =>
            LET chunk == SubSeq(san_in', Len(san_in) + 1, Len(san_in'))
                b     == buffer \o chunk
                k     == Len(b) - Len(buffer')
            IN  /\ san_in' = san_in \o chunk
                /\ k >= 0
                /\ buffer' = SubSeq(b, k + 1, Len(b))
                /\ san_ret' = IF k > 0
                              THEN ReplaceRefs(SubSeq(b, 1, k), valid_ids)
                              ELSE <<>>
         ]_vars

\* C37 witness: after three feeds part of the input has been released and
\* the rest, more than one chunk long, is in the buffer.
InputConservationWitness ==
    /\ san_pc = "streaming"
    /\ san_n >= 3
    /\ san_out # <<>>
    /\ Len(buffer) >= 6
    /\ Len(buffer) < Len(san_in)
    /\ buffer = SubSeq(san_in, Len(san_in) - Len(buffer) + 1, Len(san_in))

\* the lesson identifier contains a '#'
HasHash(lesson) ==
    \E i \in 1..Len(lesson) : lesson[i] = "#"

\* C38. A submission whose lesson identifier contains no '#' is never
\* graded: a call working on it fetches no file from the content
\* repository, invokes the LLM never and issues no ai_graded update, and its
\* row is never at ai_graded and never carries a score of the LLM.
PageOnlyNeverGraded ==
    /\ \A w \in Workers :
          (wk[w].submission # None
              /\ ~HasHash(wk[w].submission[1].lesson_id)) =>
            /\ ~wk[w].net
            /\ wk[w].fetch \in {"", "ExerciseFetchError"}
            /\ wk[w].g.invocations = 0
            /\ wk[w].g.state = "running"
            /\ \A i \in 1..Len(wk[w].updates) :
                  wk[w].updates[i].fields.status # "ai_graded"
    /\ \A s \in SubIds :
          (db[s] # NoRow /\ ~HasHash(db[s].lesson_id)) =>
            /\ db[s].status # "ai_graded"
            /\ db[s].llm_score = None
            /\ db[s].llm_feedback = None

\* C38 witness: the call on a row with lesson id  p  has ended: the content
\* fetch raised ExerciseFetchError without fetching a file, the LLM was not
\* invoked and the row is still at submitted.
PageOnlyNeverGradedWitness ==
    /\ db["s1"] # NoRow
    /\ db["s1"].lesson_id = <<"p">>
    /\ db["s1"].status = "submitted"
    /\ \E w \in Workers :
          /\ wk[w].pc = "returned"
          /\ wk[w].sid = "s1"
          /\ wk[w].fetch = "ExerciseFetchError"
          /\ ~wk[w].net
          /\ wk[w].g.invocations = 0

\* C39 (one worker, no admin: SpecOne). When the grading_failed update
\* issued after a permanent failure fails itself, the call swallows the
\* error: the failing step changes no row and ends the call, which returns
\* normally; the failed update is the only update the call issued; and the
\* row is still at submitted without score fields.
FailedMarkSwallowed ==
    /\ [](\A w \in Workers :
             (wk[w].updates # <<>>
                 /\ wk[w].updates[Len(wk[w].updates)].fields = FailedFields
                 /\ ~wk[w].updates[Len(wk[w].updates)].ok) =>
               /\ wk[w].pc = "returned"
               /\ wk[w].exit = "return"
               /\ Len(wk[w].updates) = 1
               /\ wk[w].g.state = "raised"
               /\ wk[w].g.raised = "GradingError"
               /\ db[wk[w].sid] # NoRow
               /\ db[wk[w].sid].status = "submitted"
               /\ db[wk[w].sid].llm_score = None
               /\ db[wk[w].sid].llm_feedback = None)
    /\ [][\A w \in Workers :
            (/\ wk[w].pc = "mark_failed"
             /\ wk'[w] # wk[w]
             /\ ~wk'[w].updates[Len(wk'[w].updates)].ok) =>
               /\ db' = db
               /\ wk'[w].pc = "returned"
               /\ wk'[w].exit = "return"
         ]_vars

\* C39 witness: every attempt of the grading failed, the call went to mark
\* the row, the update failed, and the call has returned normally with the
\* row still at submitted.
FailedMarkSwallowedWitness ==
    /\ wk["w1"].pc = "returned"
    /\ wk["w1"].exit = "return"
    /\ wk["w1"].path = "failed_unmarked"
    /\ wk["w1"].g.raised = "GradingError"
    /\ wk["w1"].g.invocations > 0
    /\ Len(wk["w1"].updates) = 1
    /\ ~wk["w1"].updates[1].ok
    /\ db["s1"].status = "submitted"

=============================================================================
